---- MODULE Spec2Model ----
(***************************************************************************)
(* A model of android::Scheduler                                           *)
(* (services/surfaceflinger/Scheduler/Scheduler.cpp).                      *)
(*                                                                         *)
(* Part 1, hardware vsync control: every method that touches               *)
(* mPrimaryHWVsyncEnabled / mHWVsyncAvailable, one step per statement, run *)
(* by threads that share the std::mutex mHWVsyncLock.  DispSync and        *)
(* EventControlThread are external: their answers are nondeterministic     *)
(* and every call made to them is logged.                                  *)
(***************************************************************************)
EXTENDS Integers, Sequences, FiniteSets, TLC

\* The calling threads.  SpecSeq runs MainThread alone, Spec runs them all.
Threads == {"t1", "t2"}
MainThread == "t1"
\* The value of mHWVsyncLock when no thread owns it.
Free == "free"
\* Arguments the callers pass.
Periods == {16, 33}
Timestamps == {100}
Fences == {200}
\* Number of completed operations the observer remembers (SpecSeq).
HistLen == 2
\* The Scheduler objects of the process.
Schedulers == {"s1", "s2"}
\* Number of createConnection calls the process makes.
MaxConnections == 3
\* Arguments the callers pass to the connection methods.
ConnectionArgs == {<<"app", 1000>>}
PhaseOffsets == {1000, 2000}
Connected == BOOLEAN
DisplayTypes == {"Primary"}
\* Number of slots of the ring buffer of frame intervals (scheduler::ARRAY_SIZE).
ARRAY_SIZE == 2
\* Number of frame slots mLayerHistory keeps.
LayerHistorySize == 4
\* Nanoseconds in a millisecond.
NsPerMs == 1000000
\* The layers frames are presented for.
Layers == {"A", "B"}
\* The services a lazy process registers.
ServiceNames == {"A", "B"}
\* Number of onClients notifications the service manager sends.
MaxNotifications == 3
\* size_t as SizeTLimbs limbs of LimbBase values each (64 bits).
SizeTLimbs == 4
LimbBase == 65536

VARIABLES
    mPrimaryHWVsyncEnabled, \* Scheduler::mPrimaryHWVsyncEnabled
    mHWVsyncAvailable,      \* Scheduler::mHWVsyncAvailable
    mHWVsyncLock,           \* owner of Scheduler::mHWVsyncLock, or Free
    pc,                     \* per thread: the statement it executes next
    op,                     \* per thread: the public method it was called with
    needsHwVsync,           \* per thread: the local of addResyncSample / the
                            \* condition value of addPresentFence
    makeUnavailable,        \* per thread: parameter of disableHardwareVsync
    trace,                  \* per thread: events of the running method
    pre,                    \* per thread: the two fields when the method was called
    hwVsyncOn,              \* EventControlThread: last setVsyncEnabled argument
    resyncActive,           \* DispSync: between beginResync and endResync
    hist,                   \* observer: the last HistLen completed methods
    overtaken,              \* observer, per thread: another thread began a resync
                            \* after DispSync told this one to stop
    sNextId,                \* Scheduler::sNextId, shared by every Scheduler
    mConnections,           \* per Scheduler: Scheduler::mConnections
    eventThreads,           \* per Scheduler and id: the EventThread made for it
    local,                  \* per thread: the locals of createConnection
    result,                 \* per thread: what the running method returns
    returned,               \* observer: the createConnection calls that returned
    crashed                 \* the process died of an invalid memory access

VARIABLES
    mTimeDifferences,        \* Scheduler::mTimeDifferences, slot k at index k + 1
    mCounter,                \* Scheduler::mCounter
    mPreviousFrameTimestamp, \* Scheduler::mPreviousFrameTimestamp
    mLayerHistory,           \* Scheduler::mLayerHistory
    mSkipCount,              \* Scheduler::mSkipCount
    atrace,                  \* what the last frame method traced (ATRACE_INT) and
                             \* called on DispSync
    lastFrame,               \* observer: the last addFramePresentTimeForLayer call
    accepted,                \* observer: the intervals written to mTimeDifferences
    frames,                  \* caller: number of frames presented
    lastPresentTime          \* caller: present time of the last frame

VARIABLES
    mNumConnectedServices, \* ClientCounterCallback::mNumConnectedServices
    mRegisteredServices,   \* ClientCounterCallback::mRegisteredServices, by name
    managerServices,       \* service manager: the names registered with it
    exited,                \* the lazy process called exit(EXIT_SUCCESS)
    iteratorFault,         \* the lazy process died using an invalidated iterator
    hasClients,            \* observer, per service: the last onClients value
    lastOnClients,         \* observer: what the last onClients call did
    modifiedWhileIterated, \* observer: a push_back was made inside tryShutdown's loop
    notifications          \* service manager: number of onClients calls made

VARIABLES
    dpc,               \* dumpstate main thread: the statement it executes next
    bugreport_fd,      \* options_->bugreport_fd.get() != -1
    defaultMode,       \* neither telephony_only nor wifi_only
    consent_callback_, \* Dumpstate::consent_callback_ != nullptr
    requested,         \* incidentcompanion: the request waits for the user's answer
    result_,           \* ConsentCallback::result_
    consent_result,    \* the local of CopyBugreportIfUserConsented
    status,            \* the local of RunInternal (line 2713)
    runStatus,         \* what RunInternal returned, "none" before
    copied,            \* the bugreport was copied to the caller's fd
    cleaned,           \* CleanupFiles deleted the internal files
    cancelled          \* cancelAuthorization was called

lazyVars == <<mNumConnectedServices, mRegisteredServices, managerServices, exited,
              iteratorFault, hasClients, lastOnClients, modifiedWhileIterated,
              notifications>>

dumpVars == <<dpc, bugreport_fd, defaultMode, consent_callback_, requested, result_,
              consent_result, status, runStatus, copied, cleaned, cancelled>>

hwFields == <<mPrimaryHWVsyncEnabled, mHWVsyncAvailable>>
hwExternal == <<hwVsyncOn, resyncActive>>
hwLocals == <<needsHwVsync, makeUnavailable>>
hwVars == <<mPrimaryHWVsyncEnabled, mHWVsyncAvailable, mHWVsyncLock, pc, op,
            needsHwVsync, makeUnavailable, trace, pre, hwVsyncOn, resyncActive,
            overtaken>>

regVars == <<sNextId, mConnections, eventThreads, local, result, returned, crashed>>

frameFields == <<mTimeDifferences, mCounter, mPreviousFrameTimestamp, mLayerHistory>>
frameVars == <<frameFields, mSkipCount, atrace, lastFrame, accepted, frames,
               lastPresentTime>>

NoOp == [name |-> "none", arg |-> "none"]
FieldsNow == [enabled |-> mPrimaryHWVsyncEnabled, available |-> mHWVsyncAvailable]

\* ------------------------------------------------------------------------
\* Helpers shared by the steps.

\* The answer DispSync gave to the method's sample or fence, if it was asked.
Answers(tr) ==
    LET asked == SelectSeq(tr, LAMBDA e : e.ev \in {"addResyncSample", "addPresentFence"})
    IN  [i \in 1..Len(asked) |-> asked[i].res]

\* Thread u is between DispSync's answer that no more samples are needed and the
\* end of the disableHardwareVsync(false) that answer leads to.
Deciding(u) ==
    /\ op[u].name \in {"addResyncSample", "addPresentFence"}
    /\ Answers(trace[u]) = <<FALSE>>
    /\ pc[u] # "ret"

\* The observer: when thread t calls beginResync, every other thread that is
\* between its answer and its disable has been overtaken by a later resync.
Overtake(t) ==
    IF pc[t] = "en_beginResync"
       THEN [u \in Threads |-> overtaken[u] \/ (u # t /\ Deciding(u))]
       ELSE overtaken

\* Thread t of a hardware vsync method moves on to the statement at label; these
\* methods touch neither the connections nor the observer's history.
Goto(t, label) ==
    /\ ~crashed
    /\ pc' = [pc EXCEPT ![t] = label]
    /\ overtaken' = Overtake(t)
    /\ UNCHANGED <<regVars, hist, frameVars, lazyVars, dumpVars>>

\* One logged event: a lock operation, a field access or an external call,
\* with whether the thread owned mHWVsyncLock at that moment.
Event(t, name, arg, res) ==
    [ev |-> name, arg |-> arg, res |-> res, held |-> mHWVsyncLock = t]

Log(t, name, arg, res) ==
    trace' = [trace EXCEPT ![t] = Append(@, Event(t, name, arg, res))]

\* std::lock_guard<std::mutex> lock(mHWVsyncLock): blocks while owned.
Acquire(t) ==
    /\ mHWVsyncLock = Free
    /\ mHWVsyncLock' = t

\* The lock_guard's destructor.
Release(t) == mHWVsyncLock' = Free

\* ------------------------------------------------------------------------
\* Scheduler::enableHardwareVsync

enableHardwareVsync_cond_ignoresAvailable == ~mPrimaryHWVsyncEnabled

enableHardwareVsync_cond_ignoresEnabled == mHWVsyncAvailable

enableHardwareVsync_cond == ~mPrimaryHWVsyncEnabled /\ mHWVsyncAvailable

enableHardwareVsync_lock(t) ==
    /\ pc[t] = "en_lock"
    /\ Acquire(t)
    /\ Goto(t, "en_check")
    /\ UNCHANGED <<hwFields, hwExternal, hwLocals, op, pre, trace>>

enableHardwareVsync_check(t) ==
    /\ pc[t] = "en_check"
    /\ Log(t, "read", "fields", "void")
    /\ IF enableHardwareVsync_cond
          THEN Goto(t, "en_beginResync")
          ELSE Goto(t, "en_unlock")
    /\ UNCHANGED <<hwFields, hwExternal, hwLocals, op, pre, mHWVsyncLock>>

enableHardwareVsync_beginResync(t) ==
    /\ pc[t] = "en_beginResync"
    /\ Log(t, "beginResync", "none", "void")
    /\ resyncActive' = TRUE
    /\ Goto(t, "en_setVsyncEnabled")
    /\ UNCHANGED <<hwFields, hwVsyncOn, hwLocals, op, pre, mHWVsyncLock>>

enableHardwareVsync_setVsyncEnabled(t) ==
    /\ pc[t] = "en_setVsyncEnabled"
    /\ Log(t, "setVsyncEnabled", TRUE, "void")
    /\ hwVsyncOn' = TRUE
    /\ Goto(t, "en_write")
    /\ UNCHANGED <<hwFields, resyncActive, hwLocals, op, pre, mHWVsyncLock>>

\* The method with the assignment of line 156 left out.
enableHardwareVsync_write_omitted(t) ==
    /\ pc[t] = "en_write"
    /\ Goto(t, "en_unlock")
    /\ UNCHANGED <<hwFields, hwExternal, hwLocals, op, pre, trace, mHWVsyncLock>>

enableHardwareVsync_write(t) ==
    /\ pc[t] = "en_write"
    /\ Log(t, "write", "mPrimaryHWVsyncEnabled", "void")
    /\ mPrimaryHWVsyncEnabled' = TRUE
    /\ Goto(t, "en_unlock")
    /\ UNCHANGED <<mHWVsyncAvailable, hwExternal, hwLocals, op, pre, mHWVsyncLock>>

enableHardwareVsync_unlock(t) ==
    /\ pc[t] = "en_unlock"
    /\ Release(t)
    /\ Goto(t, "ret")
    /\ UNCHANGED <<hwFields, hwExternal, hwLocals, op, pre, trace>>

enableHardwareVsync(t) ==
    \/ enableHardwareVsync_lock(t)
    \/ enableHardwareVsync_check(t)
    \/ enableHardwareVsync_beginResync(t)
    \/ enableHardwareVsync_setVsyncEnabled(t)
    \/ enableHardwareVsync_write(t)
    \/ enableHardwareVsync_unlock(t)

\* ------------------------------------------------------------------------
\* Scheduler::disableHardwareVsync

disableHardwareVsync_cond_always == TRUE

disableHardwareVsync_cond == mPrimaryHWVsyncEnabled

\* The method entered without taking the lock.
disableHardwareVsync_lock_missing(t) ==
    /\ pc[t] = "dis_lock"
    /\ Goto(t, "dis_check")
    /\ UNCHANGED <<hwFields, hwExternal, hwLocals, op, pre, trace, mHWVsyncLock>>

disableHardwareVsync_lock(t) ==
    /\ pc[t] = "dis_lock"
    /\ Acquire(t)
    /\ Goto(t, "dis_check")
    /\ UNCHANGED <<hwFields, hwExternal, hwLocals, op, pre, trace>>

disableHardwareVsync_check(t) ==
    /\ pc[t] = "dis_check"
    /\ Log(t, "read", "mPrimaryHWVsyncEnabled", "void")
    /\ IF disableHardwareVsync_cond
          THEN Goto(t, "dis_setVsyncEnabled")
          ELSE Goto(t, "dis_makeUnavailable")
    /\ UNCHANGED <<hwFields, hwExternal, hwLocals, op, pre, mHWVsyncLock>>

disableHardwareVsync_setVsyncEnabled(t) ==
    /\ pc[t] = "dis_setVsyncEnabled"
    /\ Log(t, "setVsyncEnabled", FALSE, "void")
    /\ hwVsyncOn' = FALSE
    /\ Goto(t, "dis_endResync")
    /\ UNCHANGED <<hwFields, resyncActive, hwLocals, op, pre, mHWVsyncLock>>

disableHardwareVsync_endResync(t) ==
    /\ pc[t] = "dis_endResync"
    /\ Log(t, "endResync", "none", "void")
    /\ resyncActive' = FALSE
    /\ Goto(t, "dis_write")
    /\ UNCHANGED <<hwFields, hwVsyncOn, hwLocals, op, pre, mHWVsyncLock>>

disableHardwareVsync_write(t) ==
    /\ pc[t] = "dis_write"
    /\ Log(t, "write", "mPrimaryHWVsyncEnabled", "void")
    /\ mPrimaryHWVsyncEnabled' = FALSE
    /\ Goto(t, "dis_makeUnavailable")
    /\ UNCHANGED <<mHWVsyncAvailable, hwExternal, hwLocals, op, pre, mHWVsyncLock>>

\* The second if nested in the first: unavailable only when it was enabled.
disableHardwareVsync_makeUnavailable_nested(t) ==
    /\ pc[t] = "dis_makeUnavailable"
    /\ IF makeUnavailable[t] /\ trace[t][Len(trace[t])].ev = "write"
          THEN /\ Log(t, "write", "mHWVsyncAvailable", "void")
               /\ mHWVsyncAvailable' = FALSE
          ELSE UNCHANGED <<trace, mHWVsyncAvailable>>
    /\ Goto(t, "dis_unlock")
    /\ UNCHANGED <<mPrimaryHWVsyncEnabled, hwExternal, hwLocals, op, pre, mHWVsyncLock>>

disableHardwareVsync_makeUnavailable(t) ==
    /\ pc[t] = "dis_makeUnavailable"
    /\ IF makeUnavailable[t]
          THEN /\ Log(t, "write", "mHWVsyncAvailable", "void")
               /\ mHWVsyncAvailable' = FALSE
          ELSE UNCHANGED <<trace, mHWVsyncAvailable>>
    /\ Goto(t, "dis_unlock")
    /\ UNCHANGED <<mPrimaryHWVsyncEnabled, hwExternal, hwLocals, op, pre, mHWVsyncLock>>

disableHardwareVsync_unlock(t) ==
    /\ pc[t] = "dis_unlock"
    /\ Release(t)
    /\ Goto(t, "ret")
    /\ UNCHANGED <<hwFields, hwExternal, hwLocals, op, pre, trace>>

disableHardwareVsync(t) ==
    \/ disableHardwareVsync_lock(t)
    \/ disableHardwareVsync_check(t)
    \/ disableHardwareVsync_setVsyncEnabled(t)
    \/ disableHardwareVsync_endResync(t)
    \/ disableHardwareVsync_write(t)
    \/ disableHardwareVsync_makeUnavailable(t)
    \/ disableHardwareVsync_unlock(t)

\* Entering the two toggle functions from another method of the Scheduler.
CallEnable(t) == Goto(t, "en_lock") /\ UNCHANGED makeUnavailable

CallDisable(t, unavailable) ==
    /\ Goto(t, "dis_lock")
    /\ makeUnavailable' = [makeUnavailable EXCEPT ![t] = unavailable]

\* ------------------------------------------------------------------------
\* Scheduler::setVsyncPeriod

setVsyncPeriod_reset(t) ==
    /\ pc[t] = "svp_reset"
    /\ Log(t, "reset", "none", "void")
    /\ Goto(t, "svp_setPeriod")
    /\ UNCHANGED <<hwFields, hwExternal, hwLocals, op, pre, mHWVsyncLock>>

\* The method returning after setPeriod, without the call of line 175.
setVsyncPeriod_setPeriod_noEnable(t) ==
    /\ pc[t] = "svp_setPeriod"
    /\ Log(t, "setPeriod", op[t].arg, "void")
    /\ Goto(t, "ret")
    /\ UNCHANGED <<hwFields, hwExternal, hwLocals, op, pre, mHWVsyncLock>>

setVsyncPeriod_setPeriod(t) ==
    /\ pc[t] = "svp_setPeriod"
    /\ Log(t, "setPeriod", op[t].arg, "void")
    /\ CallEnable(t)
    /\ UNCHANGED <<hwFields, hwExternal, needsHwVsync, op, pre, mHWVsyncLock>>

setVsyncPeriod(t) ==
    \/ setVsyncPeriod_reset(t)
    \/ setVsyncPeriod_setPeriod(t)

\* ------------------------------------------------------------------------
\* Scheduler::addResyncSample

addResyncSample_lock(t) ==
    /\ pc[t] = "ars_lock"
    /\ Acquire(t)
    /\ Goto(t, "ars_check")
    /\ UNCHANGED <<hwFields, hwExternal, hwLocals, op, pre, trace>>

\* The sample handed to DispSync whatever the field says.
addResyncSample_check_always(t) ==
    /\ pc[t] = "ars_check"
    /\ Log(t, "read", "mPrimaryHWVsyncEnabled", "void")
    /\ Goto(t, "ars_sample")
    /\ UNCHANGED <<hwFields, hwExternal, hwLocals, op, pre, mHWVsyncLock>>

addResyncSample_check(t) ==
    /\ pc[t] = "ars_check"
    /\ Log(t, "read", "mPrimaryHWVsyncEnabled", "void")
    /\ IF mPrimaryHWVsyncEnabled
          THEN Goto(t, "ars_sample")
          ELSE Goto(t, "ars_unlock")
    /\ UNCHANGED <<hwFields, hwExternal, hwLocals, op, pre, mHWVsyncLock>>

\* needsHwVsync = mPrimaryDispSync->addResyncSample(timestamp): the answer is
\* DispSync's.
addResyncSample_sample(t) ==
    /\ pc[t] = "ars_sample"
    /\ \E answer \in BOOLEAN :
          /\ Log(t, "addResyncSample", op[t].arg, answer)
          /\ needsHwVsync' = [needsHwVsync EXCEPT ![t] = answer]
    /\ Goto(t, "ars_unlock")
    /\ UNCHANGED <<hwFields, hwExternal, makeUnavailable, op, pre, mHWVsyncLock>>

\* The lock's scope ends and the lock is kept (a slip the ordering rule forbids).
addResyncSample_unlock_keepsLock(t) ==
    /\ pc[t] = "ars_unlock"
    /\ Goto(t, "ars_branch")
    /\ UNCHANGED <<hwFields, hwExternal, hwLocals, op, pre, trace, mHWVsyncLock>>

addResyncSample_unlock(t) ==
    /\ pc[t] = "ars_unlock"
    /\ Release(t)
    /\ Goto(t, "ars_branch")
    /\ UNCHANGED <<hwFields, hwExternal, hwLocals, op, pre, trace>>

\* The branch with its two arms exchanged.
addResyncSample_branch_inverted(t) ==
    /\ pc[t] = "ars_branch"
    /\ IF needsHwVsync[t]
          THEN CallDisable(t, FALSE)
          ELSE CallEnable(t)
    /\ UNCHANGED <<hwFields, hwExternal, needsHwVsync, op, pre, trace, mHWVsyncLock>>

addResyncSample_branch(t) ==
    /\ pc[t] = "ars_branch"
    /\ IF needsHwVsync[t]
          THEN CallEnable(t)
          ELSE CallDisable(t, FALSE)
    /\ UNCHANGED <<hwFields, hwExternal, needsHwVsync, op, pre, trace, mHWVsyncLock>>

addResyncSample(t) ==
    \/ addResyncSample_lock(t)
    \/ addResyncSample_check(t)
    \/ addResyncSample_sample(t)
    \/ addResyncSample_unlock(t)
    \/ addResyncSample_branch(t)

\* ------------------------------------------------------------------------
\* Scheduler::addPresentFence

\* The fence handed to DispSync only while hardware sync is enabled, as
\* addResyncSample does with its sample.
addPresentFence_fence_onlyEnabled(t) ==
    /\ pc[t] = "apf_fence"
    /\ IF mPrimaryHWVsyncEnabled
          THEN \E answer \in BOOLEAN :
                  /\ Log(t, "addPresentFence", op[t].arg, answer)
                  /\ needsHwVsync' = [needsHwVsync EXCEPT ![t] = answer]
          ELSE /\ needsHwVsync' = [needsHwVsync EXCEPT ![t] = FALSE]
               /\ UNCHANGED trace
    /\ Goto(t, "apf_branch")
    /\ UNCHANGED <<hwFields, hwExternal, makeUnavailable, op, pre, mHWVsyncLock>>

\* if (mPrimaryDispSync->addPresentFence(fenceTime)): the answer is DispSync's.
addPresentFence_fence(t) ==
    /\ pc[t] = "apf_fence"
    /\ \E answer \in BOOLEAN :
          /\ Log(t, "addPresentFence", op[t].arg, answer)
          /\ needsHwVsync' = [needsHwVsync EXCEPT ![t] = answer]
    /\ Goto(t, "apf_branch")
    /\ UNCHANGED <<hwFields, hwExternal, makeUnavailable, op, pre, mHWVsyncLock>>

addPresentFence_branch(t) ==
    /\ pc[t] = "apf_branch"
    /\ IF needsHwVsync[t]
          THEN CallEnable(t)
          ELSE CallDisable(t, FALSE)
    /\ UNCHANGED <<hwFields, hwExternal, needsHwVsync, op, pre, trace, mHWVsyncLock>>

addPresentFence(t) ==
    \/ addPresentFence_fence(t)
    \/ addPresentFence_branch(t)

\* ------------------------------------------------------------------------
\* Scheduler::makeHWSyncAvailable

\* The method entered without taking the lock.
makeHWSyncAvailable_lock_missing(t) ==
    /\ pc[t] = "mk_lock"
    /\ Goto(t, "mk_write")
    /\ UNCHANGED <<hwFields, hwExternal, hwLocals, op, pre, trace, mHWVsyncLock>>

makeHWSyncAvailable_lock(t) ==
    /\ pc[t] = "mk_lock"
    /\ Acquire(t)
    /\ Goto(t, "mk_write")
    /\ UNCHANGED <<hwFields, hwExternal, hwLocals, op, pre, trace>>

makeHWSyncAvailable_write(t) ==
    /\ pc[t] = "mk_write"
    /\ Log(t, "write", "mHWVsyncAvailable", "void")
    /\ mHWVsyncAvailable' = op[t].arg
    /\ Goto(t, "mk_unlock")
    /\ UNCHANGED <<mPrimaryHWVsyncEnabled, hwExternal, hwLocals, op, pre, mHWVsyncLock>>

makeHWSyncAvailable_unlock(t) ==
    /\ pc[t] = "mk_unlock"
    /\ Release(t)
    /\ Goto(t, "ret")
    /\ UNCHANGED <<hwFields, hwExternal, hwLocals, op, pre, trace>>

makeHWSyncAvailable(t) ==
    \/ makeHWSyncAvailable_lock(t)
    \/ makeHWSyncAvailable_write(t)
    \/ makeHWSyncAvailable_unlock(t)

\* ------------------------------------------------------------------------
\* A caller invoking a public method, and the method returning to it.

Begin(t, name, arg) ==
    /\ pc[t] = "idle"
    /\ op' = [op EXCEPT ![t] = [name |-> name, arg |-> arg]]
    /\ pre' = [pre EXCEPT ![t] = FieldsNow]
    /\ UNCHANGED <<hwFields, hwExternal, trace, mHWVsyncLock>>

Call_enableHardwareVsync(t) ==
    /\ Begin(t, "enableHardwareVsync", "none")
    /\ CallEnable(t)
    /\ UNCHANGED needsHwVsync

Call_disableHardwareVsync(t, unavailable) ==
    /\ Begin(t, "disableHardwareVsync", unavailable)
    /\ CallDisable(t, unavailable)
    /\ UNCHANGED needsHwVsync

Call_setVsyncPeriod(t, period) ==
    /\ Begin(t, "setVsyncPeriod", period)
    /\ Goto(t, "svp_reset")
    /\ UNCHANGED hwLocals

\* bool needsHwVsync = false;
Call_addResyncSample(t, timestamp) ==
    /\ Begin(t, "addResyncSample", timestamp)
    /\ needsHwVsync' = [needsHwVsync EXCEPT ![t] = FALSE]
    /\ Goto(t, "ars_lock")
    /\ UNCHANGED makeUnavailable

Call_addPresentFence(t, fenceTime) ==
    /\ Begin(t, "addPresentFence", fenceTime)
    /\ Goto(t, "apf_fence")
    /\ UNCHANGED hwLocals

Call_makeHWSyncAvailable(t, makeAvailable) ==
    /\ Begin(t, "makeHWSyncAvailable", makeAvailable)
    /\ Goto(t, "mk_lock")
    /\ UNCHANGED hwLocals

Returning(t) ==
    /\ pc[t] = "ret"
    /\ ~crashed
    /\ pc' = [pc EXCEPT ![t] = "idle"]
    /\ op' = [op EXCEPT ![t] = NoOp]
    /\ trace' = [trace EXCEPT ![t] = <<>>]
    /\ pre' = [pre EXCEPT ![t] = [enabled |-> FALSE, available |-> FALSE]]
    /\ needsHwVsync' = [needsHwVsync EXCEPT ![t] = FALSE]
    /\ makeUnavailable' = [makeUnavailable EXCEPT ![t] = FALSE]
    /\ overtaken' = [overtaken EXCEPT ![t] = FALSE]
    /\ UNCHANGED <<hwFields, hwExternal, mHWVsyncLock, regVars, frameVars, lazyVars,
                   dumpVars>>

Return(t) == Returning(t) /\ UNCHANGED hist

\* The observer: when a method returns, remember what it was called with, the
\* fields before and after it and the events it produced.
Completed(t) ==
    [op |-> op[t], pre |-> pre[t], post |-> FieldsNow, trace |-> trace[t]]

Remember(h, r) ==
    IF Len(h) < HistLen THEN Append(h, r) ELSE Append(Tail(h), r)

ReturnObserved(t) == Returning(t) /\ hist' = Remember(hist, Completed(t))

\* A caller invokes a hardware vsync method with any argument.
HWCall(t) ==
    \/ Call_enableHardwareVsync(t)
    \/ \E unavailable \in BOOLEAN : Call_disableHardwareVsync(t, unavailable)
    \/ \E period \in Periods : Call_setVsyncPeriod(t, period)
    \/ \E timestamp \in Timestamps : Call_addResyncSample(t, timestamp)
    \/ \E fenceTime \in Fences : Call_addPresentFence(t, fenceTime)
    \/ \E makeAvailable \in BOOLEAN : Call_makeHWSyncAvailable(t, makeAvailable)

\* One step of thread t inside a hardware vsync method.
HWStep(t) ==
    \/ enableHardwareVsync(t)
    \/ disableHardwareVsync(t)
    \/ setVsyncPeriod(t)
    \/ addResyncSample(t)
    \/ addPresentFence(t)
    \/ makeHWSyncAvailable(t)

\* ------------------------------------------------------------------------
\* Part 2, the connections: Scheduler::sNextId, Scheduler::mConnections and the
\* methods that take a ConnectionHandle.

\* sp<ConnectionHandle>: nullptr, or a handle object carrying its id.
Null == <<>>
Handle(id) == <<id>>
Handles == {Null} \cup {Handle(i) : i \in 0..MaxConnections}

\* A default-constructed std::unique_ptr<Connection>, as operator[] inserts it.
NullConnection == [handle |-> Null, eventConnection |-> Null, thread |-> Null]

NoLocal == [scheduler |-> "none", connectionName |-> "none", phaseOffsetNs |-> -1,
            id |-> -1, doneBefore |-> -1]

\* Thread t of a connection method moves on to the statement at label; these
\* methods touch nothing of the hardware vsync state.
RegGoto(t, label) ==
    /\ ~crashed
    /\ pc' = [pc EXCEPT ![t] = label]
    /\ UNCHANGED <<hwFields, hwExternal, hwLocals, mHWVsyncLock, pre, hist, overtaken,
                   frameVars, lazyVars, dumpVars>>

\* Scheduler::makeEventThread: the EventThread over a DispSyncSource with the
\* given phase offset.
makeEventThread(connectionName, phaseOffsetNs) ==
    [sourceName |-> <<connectionName, "Source">>,
     threadName |-> <<connectionName, "Thread">>,
     phaseOffset |-> phaseOffsetNs,
     screenAcquired |-> TRUE]

\* What an EventThread keeps of a call it receives.
EventThreadReceive(thread, method, arg) ==
    CASE method = "onScreenAcquired" -> [thread EXCEPT !.screenAcquired = TRUE]
      [] method = "onScreenReleased" -> [thread EXCEPT !.screenAcquired = FALSE]
      [] method = "setPhaseOffset" -> [thread EXCEPT !.phaseOffset = arg]
      [] OTHER -> thread

\* The map assigned the new pair alone instead of having it inserted.
MapInsert_replacesAll(map, key, value) == [k \in {key} |-> value]

\* std::unordered_map::insert: adds the pair unless the key is present.
MapInsert(map, key, value) ==
    [k \in DOMAIN map \cup {key} |-> IF k \in DOMAIN map THEN map[k] ELSE value]

\* std::unordered_map::operator[]: adds a default value when the key is absent.
MapSubscript(map, key) == MapInsert(map, key, NullConnection)

\* Two unsynchronised accesses to one Scheduler's mConnections, one of them an
\* insert, are about to happen at the same time: a data race.
MapAccessPcs == {"cc_insert", "cc_return"}

Races(t) ==
    \E u \in Threads \ {t} :
        /\ pc[u] \in MapAccessPcs
        /\ local[u].scheduler = local[t].scheduler
        /\ "cc_insert" \in {pc[t], pc[u]}

\* ------------------------------------------------------------------------
\* Scheduler::createConnection

Call_createConnection(t, s, connectionName, phaseOffsetNs) ==
    /\ pc[t] = "idle"
    /\ sNextId < MaxConnections
    /\ op' = [op EXCEPT ![t] = [name |-> "createConnection",
                                arg |-> <<s, connectionName, phaseOffsetNs>>]]
    /\ local' = [local EXCEPT ![t] =
                    [scheduler |-> s, connectionName |-> connectionName,
                     phaseOffsetNs |-> phaseOffsetNs, id |-> -1,
                     doneBefore |-> Len(returned)]]
    /\ RegGoto(t, "cc_fetch")
    /\ UNCHANGED <<sNextId, mConnections, eventThreads, result, returned, crashed, trace>>

\* The counter as a plain integer: the read and the write are two steps.
createConnection_fetch_notAtomic(t) ==
    /\ pc[t] \in {"cc_fetch", "cc_fetch_store"}
    /\ IF pc[t] = "cc_fetch"
          THEN /\ local' = [local EXCEPT ![t].id = sNextId]
               /\ RegGoto(t, "cc_fetch_store")
               /\ UNCHANGED sNextId
          ELSE /\ sNextId' = local[t].id + 1
               /\ RegGoto(t, "cc_insert")
               /\ UNCHANGED local
    /\ UNCHANGED <<mConnections, eventThreads, result, returned, crashed, op, trace>>

\* const int64_t id = sNextId++;  (one atomic read-modify-write)
createConnection_fetch(t) ==
    /\ pc[t] = "cc_fetch"
    /\ local' = [local EXCEPT ![t].id = sNextId]
    /\ sNextId' = sNextId + 1
    /\ RegGoto(t, "cc_insert")
    /\ UNCHANGED <<mConnections, eventThreads, result, returned, crashed, op, trace>>

\* The connection built from the locals of thread t.
NewConnection(t) ==
    [handle |-> Handle(local[t].id),
     eventConnection |-> <<"eventConnection", local[t].scheduler, local[t].id>>,
     thread |-> <<"thread", local[t].scheduler, local[t].id>>]

\* makeEventThread, make_unique<Connection>, mConnections.insert.  In a data race
\* the insert may also be lost or the process may die.
createConnection_insert(t) ==
    /\ pc[t] = "cc_insert"
    /\ \E outcome \in (IF Races(t) THEN {"inserted", "lost", "crash"} ELSE {"inserted"}) :
          LET s == local[t].scheduler
              id == local[t].id
          IN  /\ mConnections' =
                    IF outcome = "inserted"
                       THEN [mConnections EXCEPT ![s] = MapInsert(@, id, NewConnection(t))]
                       ELSE mConnections
              /\ eventThreads' =
                    IF outcome = "inserted" /\ id \notin DOMAIN mConnections[s]
                       THEN [eventThreads EXCEPT ![s] =
                                [k \in DOMAIN @ \cup {id} |->
                                    IF k = id
                                       THEN makeEventThread(local[t].connectionName,
                                                            local[t].phaseOffsetNs)
                                       ELSE @[k]]]
                       ELSE eventThreads
              /\ crashed' = (outcome = "crash")
    /\ RegGoto(t, "cc_return")
    /\ UNCHANGED <<sNextId, local, result, returned, op, trace>>

\* return mConnections[id]->handle;  A missing entry is added as a null pointer
\* and dereferenced; in a data race the process may die as well.
createConnection_return(t) ==
    /\ pc[t] = "cc_return"
    /\ \E outcome \in (IF Races(t) THEN {"returned", "crash"} ELSE {"returned"}) :
          LET s == local[t].scheduler
              id == local[t].id
              map == MapSubscript(mConnections[s], id)
          IN  /\ mConnections' = [mConnections EXCEPT ![s] = map]
              /\ IF outcome = "crash" \/ map[id] = NullConnection
                    THEN /\ crashed' = TRUE
                         /\ UNCHANGED <<result, returned, local>>
                    ELSE /\ crashed' = FALSE
                         /\ result' = [result EXCEPT ![t] = map[id].handle]
                         /\ returned' = Append(returned,
                                [scheduler |-> s, id |-> map[id].handle[1]])
                         /\ UNCHANGED local
    /\ RegGoto(t, "rret")
    /\ UNCHANGED <<sNextId, eventThreads, op, trace>>

createConnection(t) ==
    \/ createConnection_fetch(t)
    \/ createConnection_insert(t)
    \/ createConnection_return(t)

RegReturn(t) ==
    /\ pc[t] = "rret"
    /\ op' = [op EXCEPT ![t] = NoOp]
    /\ trace' = [trace EXCEPT ![t] = <<>>]
    /\ result' = [result EXCEPT ![t] = Null]
    /\ local' = [local EXCEPT ![t] = NoLocal]
    /\ RegGoto(t, "idle")
    /\ UNCHANGED <<sNextId, mConnections, eventThreads, returned, crashed>>

\* ------------------------------------------------------------------------
\* The methods that take a ConnectionHandle.

\* The check with the lookup of the id left out.
ValidHandle_nullCheckOnly(s, handle) == handle # Null

\* The negation of the condition of RETURN_IF_INVALID / RETURN_VALUE_IF_INVALID.
ValidHandle(s, handle) == handle # Null /\ handle[1] \in DOMAIN mConnections[s]

\* The id of the connection created first instead of the handle's.
HandleId_first(handle) == 0

\* handle->id
HandleId(handle) == handle[1]

BeginHandleMethod(t, s, handle, method, arg) ==
    /\ pc[t] = "idle"
    /\ op' = [op EXCEPT ![t] = [name |-> method, arg |-> <<s, handle, arg>>]]
    /\ RegGoto(t, "rret")
    /\ UNCHANGED <<sNextId, local, returned>>

\* The early return: nothing is touched and a value-returning method returns
\* nullptr.
ReturnInvalid == UNCHANGED <<mConnections, eventThreads, trace, result, crashed>>

\* The connection found under the handle's id in map (mConnections[s] after
\* operator[], or as it is for at()) is used: call is the EventThread method
\* invoked on its thread ("none": none), value tells what is returned.  A missing
\* or null connection ends the process.
UseConnection(t, s, handle, map, call, arg, value) ==
    LET id == HandleId(handle)
    IN  /\ mConnections' = [mConnections EXCEPT ![s] = map]
        /\ IF id \notin DOMAIN map \/ map[id] = NullConnection
              THEN /\ crashed' = TRUE
                   /\ UNCHANGED <<eventThreads, trace, result>>
              ELSE LET thread == map[id].thread
                   IN  /\ crashed' = FALSE
                       /\ IF call = "none"
                             THEN UNCHANGED <<eventThreads, trace>>
                             ELSE /\ eventThreads' =
                                       [eventThreads EXCEPT ![thread[2]][thread[3]] =
                                           EventThreadReceive(@, call, arg)]
                                  /\ Log(t, call, <<thread, arg>>, "void")
                       /\ result' = [result EXCEPT ![t] =
                              CASE value = "thread" -> thread
                                [] value = "eventConnection" -> map[id].eventConnection
                                [] value = "newEventConnection" -> <<"newEventConnection", thread>>
                                [] OTHER -> Null]

createDisplayEventConnection(t, s, handle) ==
    /\ BeginHandleMethod(t, s, handle, "createDisplayEventConnection", "none")
    /\ IF ~ValidHandle(s, handle)
          THEN ReturnInvalid
          ELSE UseConnection(t, s, handle, MapSubscript(mConnections[s], HandleId(handle)),
                             "createEventConnection", "none", "newEventConnection")

getEventThread(t, s, handle) ==
    /\ BeginHandleMethod(t, s, handle, "getEventThread", "none")
    /\ IF ~ValidHandle(s, handle)
          THEN ReturnInvalid
          ELSE UseConnection(t, s, handle, MapSubscript(mConnections[s], HandleId(handle)),
                             "none", "none", "thread")

getEventConnection(t, s, handle) ==
    /\ BeginHandleMethod(t, s, handle, "getEventConnection", "none")
    /\ IF ~ValidHandle(s, handle)
          THEN ReturnInvalid
          ELSE UseConnection(t, s, handle, MapSubscript(mConnections[s], HandleId(handle)),
                             "none", "none", "eventConnection")

hotplugReceived(t, s, handle, displayType, connected) ==
    /\ BeginHandleMethod(t, s, handle, "hotplugReceived", <<displayType, connected>>)
    /\ IF ~ValidHandle(s, handle)
          THEN ReturnInvalid
          ELSE UseConnection(t, s, handle, MapSubscript(mConnections[s], HandleId(handle)),
                             "onHotplugReceived", <<displayType, connected>>, "void")

onScreenAcquired(t, s, handle) ==
    /\ BeginHandleMethod(t, s, handle, "onScreenAcquired", "none")
    /\ IF ~ValidHandle(s, handle)
          THEN ReturnInvalid
          ELSE UseConnection(t, s, handle, MapSubscript(mConnections[s], HandleId(handle)),
                             "onScreenAcquired", "none", "void")

onScreenReleased(t, s, handle) ==
    /\ BeginHandleMethod(t, s, handle, "onScreenReleased", "none")
    /\ IF ~ValidHandle(s, handle)
          THEN ReturnInvalid
          ELSE UseConnection(t, s, handle, MapSubscript(mConnections[s], HandleId(handle)),
                             "onScreenReleased", "none", "void")

\* const: the lookup is mConnections.at(handle->id), which adds nothing.
dump(t, s, handle) ==
    /\ BeginHandleMethod(t, s, handle, "dump", "none")
    /\ IF ~ValidHandle(s, handle)
          THEN ReturnInvalid
          ELSE UseConnection(t, s, handle, mConnections[s], "dump", "none", "void")

setPhaseOffset(t, s, handle, phaseOffset) ==
    /\ BeginHandleMethod(t, s, handle, "setPhaseOffset", phaseOffset)
    /\ IF ~ValidHandle(s, handle)
          THEN ReturnInvalid
          ELSE UseConnection(t, s, handle, MapSubscript(mConnections[s], HandleId(handle)),
                             "setPhaseOffset", phaseOffset, "void")

\* A caller invokes a handle method of Scheduler s with any handle.
HandleMethod(t) ==
    \E s \in Schedulers, handle \in Handles :
        \/ createDisplayEventConnection(t, s, handle)
        \/ getEventThread(t, s, handle)
        \/ getEventConnection(t, s, handle)
        \/ \E displayType \in DisplayTypes, connected \in Connected :
              hotplugReceived(t, s, handle, displayType, connected)
        \/ onScreenAcquired(t, s, handle)
        \/ onScreenReleased(t, s, handle)
        \/ dump(t, s, handle)
        \/ \E phaseOffset \in PhaseOffsets : setPhaseOffset(t, s, handle, phaseOffset)

\* ========================================================================
\* Part 3: frame pacing statistics (addFramePresentTimeForLayer,
\* incrementFrameCounter, updateFrameSkipping). The methods take no lock and
\* are called by one caller, each running to its end before the next.

\* int64_t division, which truncates toward zero.
Div(a, b) == IF a >= 0 THEN a \div b ELSE -((-a) \div b)

RECURSIVE Sum(_)
Sum(v) == IF v = <<>> THEN 0 ELSE Head(v) + Sum(Tail(v))

\* ATRACE_INT(name, value); the per-layer tags are name + layerName.
Signal(name, layerName, value) ==
    [kind |-> "atrace", name |-> name, layer |-> layerName, value |-> value]

\* A call on mPrimaryDispSync made by a frame method.
DispSyncCall(name, value) ==
    [kind |-> "call", name |-> name, layer |-> "", value |-> value]

\* scheduler::calculate_mean: the arithmetic mean, as the fraction sum / size.
calculate_mean(v) == [num |-> Sum(v), den |-> Len(v)]

\* The mean rounded to the nearest integer.
ToInt64_rounded(q) == Div(2 * q.num + q.den, 2 * q.den)

\* The conversion of a statistic to int64_t (const int64_t meanMs = ...;
\* int64_t mean = ...; ATRACE_INT's integer argument): the fraction is cut off.
ToInt64(q) == Div(q.num, q.den)

\* scheduler::calculate_median: the middle element of the sorted list; with an
\* even number of elements either of the two middle ones.
calculate_median(v) ==
    LET sorted == SortSeq(v, LAMBDA a, b : a < b)
        n == Len(v)
    IN  {sorted[(n + 1) \div 2], sorted[(n \div 2) + 1]}

\* scheduler::calculate_mode: the most frequent value, the lowest one of several.
calculate_mode(v) ==
    LET Count(x) == Cardinality({i \in 1..Len(v) : v[i] = x})
        values == {v[i] : i \in 1..Len(v)}
    IN  CHOOSE x \in values :
            \A y \in values : Count(x) > Count(y) \/ (Count(x) = Count(y) /\ x <= y)

\* ------------------------------------------------------------------------
\* LayerHistory: frame slots of layer name -> present time entries, the
\* current slot at index counter.

\* LayerHistory::insert: the entry goes into the current slot; a slot holds at
\* most one entry per layer, so with an entry of that layer already there
\* either one of the two stays.
LayerHistory_insert(h, layerName, presentTime) ==
    LET slot == h.elements[h.counter]
        others == {e \in slot : e[1] # layerName}
        replaced == [h EXCEPT !.elements[h.counter] = others \cup {<<layerName, presentTime>>}]
    IN  IF others = slot THEN {replaced} ELSE {replaced, h}

\* LayerHistory::incrementCounter: the next slot becomes the current one and
\* starts empty, which drops the oldest slot.
LayerHistory_incrementCounter(h) ==
    LET next == (h.counter + 1) % LayerHistorySize
    IN  [elements |-> [h.elements EXCEPT ![next] = {}], counter |-> next]

\* LayerHistory::get(index): the slot index frames before the current one.
LayerHistory_get(h, index) ==
    h.elements[(LayerHistorySize + h.counter - (index % LayerHistorySize)) % LayerHistorySize]

LayerHistory_getSize == LayerHistorySize

\* ------------------------------------------------------------------------
\* Scheduler::determineTimestampAverage

\* The three bands with the middle one one millisecond wider.
Classify_wideBand(mean) ==
    IF mean > 14 /\ mean < 18 THEN <<Signal("FPS", "", 60)>>
    ELSE IF mean > 31 /\ mean <= 34 THEN <<Signal("FPS", "", 30)>>
    ELSE IF mean > 39 /\ mean < 42 THEN <<Signal("FPS", "", 24)>>
    ELSE <<>>

\* if (mean > 14 && mean < 18) ... else if ... : the FPS bucket traced.
Classify(mean) ==
    IF mean > 14 /\ mean < 18 THEN <<Signal("FPS", "", 60)>>
    ELSE IF mean > 31 /\ mean < 34 THEN <<Signal("FPS", "", 30)>>
    ELSE IF mean > 39 /\ mean < 42 THEN <<Signal("FPS", "", 24)>>
    ELSE <<>>

\* What the method leaves behind: the three fields, the signals traced and
\* whether the interval was written to the ring buffer.
Average(ring, counter, previous, signals, differenceMs, written) ==
    [ring |-> ring, counter |-> counter, previous |-> previous,
     signals |-> signals, differenceMs |-> differenceMs, written |-> written]

\* The index taken modulo one less than the number of slots.
WriteSlot_shortWrap(counter) == (counter % (ARRAY_SIZE - 1)) + 1

\* The slot written with the counter left out of the index.
WriteSlot_first(counter) == 1

\* mTimeDifferences[mCounter % scheduler::ARRAY_SIZE], slot k being index k + 1.
WriteSlot(counter) == (counter % ARRAY_SIZE) + 1

\* The noise test one millisecond too strict at both ends.
IsNoise_strict(differenceMs) == differenceMs <= 10 \/ differenceMs >= 100

\* if (differenceMs < 10 || differenceMs > 100)
IsNoise(differenceMs) == differenceMs < 10 \/ differenceMs > 100

\* The method with the stored timestamp updated before the test of
\* isAutoTimestamp.
determineTimestampAverage_autoStored(isAutoTimestamp, framePresentTime) ==
    LET auto == <<Signal("AutoTimestamp", "", IF isAutoTimestamp THEN 1 ELSE 0)>>
        differenceMs == Div(framePresentTime - mPreviousFrameTimestamp, NsPerMs)
        written == [mTimeDifferences EXCEPT ![WriteSlot(mCounter)] = differenceMs]
        mean == ToInt64(calculate_mean(written))
    IN  IF isAutoTimestamp
           THEN Average(mTimeDifferences, mCounter, framePresentTime, auto, 0, FALSE)
        ELSE IF IsNoise(differenceMs)
           THEN Average(mTimeDifferences, mCounter, framePresentTime, auto,
                        differenceMs, FALSE)
        ELSE Average(written, mCounter + 1, framePresentTime,
                     auto \o <<Signal("TimestampDiff", "", differenceMs),
                               Signal("AutoTimestampMean", "", mean)>>
                          \o Classify(mean),
                     differenceMs, TRUE)

\* The method with the stored timestamp updated only after the noise test, so
\* that a discarded frame leaves it as it was.
determineTimestampAverage_noiseNotStored(isAutoTimestamp, framePresentTime) ==
    LET auto == <<Signal("AutoTimestamp", "", IF isAutoTimestamp THEN 1 ELSE 0)>>
        differenceMs == Div(framePresentTime - mPreviousFrameTimestamp, NsPerMs)
        written == [mTimeDifferences EXCEPT ![WriteSlot(mCounter)] = differenceMs]
        mean == ToInt64(calculate_mean(written))
    IN  IF isAutoTimestamp
           THEN Average(mTimeDifferences, mCounter, mPreviousFrameTimestamp, auto, 0, FALSE)
        ELSE IF IsNoise(differenceMs)
           THEN Average(mTimeDifferences, mCounter, mPreviousFrameTimestamp, auto,
                        differenceMs, FALSE)
        ELSE Average(written, mCounter + 1, framePresentTime,
                     auto \o <<Signal("TimestampDiff", "", differenceMs),
                               Signal("AutoTimestampMean", "", mean)>>
                          \o Classify(mean),
                     differenceMs, TRUE)

determineTimestampAverage(isAutoTimestamp, framePresentTime) ==
    LET auto == <<Signal("AutoTimestamp", "", IF isAutoTimestamp THEN 1 ELSE 0)>>
        differenceMs == Div(framePresentTime - mPreviousFrameTimestamp, NsPerMs)
        written == [mTimeDifferences EXCEPT ![WriteSlot(mCounter)] = differenceMs]
        mean == ToInt64(calculate_mean(written))
    IN  IF isAutoTimestamp
           THEN Average(mTimeDifferences, mCounter, mPreviousFrameTimestamp, auto, 0, FALSE)
        ELSE IF IsNoise(differenceMs)
           THEN Average(mTimeDifferences, mCounter, framePresentTime, auto,
                        differenceMs, FALSE)
        ELSE Average(written, mCounter + 1, framePresentTime,
                     auto \o <<Signal("TimestampDiff", "", differenceMs),
                               Signal("AutoTimestampMean", "", mean)>>
                          \o Classify(mean),
                     differenceMs, TRUE)

\* ------------------------------------------------------------------------
\* Scheduler::determineLayerTimestampStats

\* The walk with every difference taken from the incoming frame's time.
RECURSIVE LayerDifferences_fromIncoming(_, _, _, _, _)
LayerDifferences_fromIncoming(h, layerName, i, newestPresentTime, differencesMs) ==
    IF i >= LayerHistory_getSize THEN differencesMs
    ELSE LET own == {layer \in LayerHistory_get(h, i) : layer[1] = layerName}
         IN  IF own = {}
                THEN LayerDifferences_fromIncoming(h, layerName, i + 1, newestPresentTime,
                                                   differencesMs)
                ELSE LET layer == CHOOSE e \in own : TRUE
                         differenceMs == Div(newestPresentTime - layer[2], NsPerMs)
                     IN  LayerDifferences_fromIncoming(h, layerName, i + 1, newestPresentTime,
                             IF differenceMs > 10 /\ differenceMs < 60
                                THEN Append(differencesMs, differenceMs)
                                ELSE differencesMs)

\* The walk with both ends of the accepted range included.
RECURSIVE LayerDifferences_inclusive(_, _, _, _, _)
LayerDifferences_inclusive(h, layerName, i, newestPresentTime, differencesMs) ==
    IF i >= LayerHistory_getSize THEN differencesMs
    ELSE LET own == {layer \in LayerHistory_get(h, i) : layer[1] = layerName}
         IN  IF own = {}
                THEN LayerDifferences_inclusive(h, layerName, i + 1, newestPresentTime,
                                                differencesMs)
                ELSE LET layer == CHOOSE e \in own : TRUE
                         differenceMs == Div(newestPresentTime - layer[2], NsPerMs)
                     IN  LayerDifferences_inclusive(h, layerName, i + 1, layer[2],
                             IF differenceMs >= 10 /\ differenceMs <= 60
                                THEN Append(differencesMs, differenceMs)
                                ELSE differencesMs)

\* for (int i = 1; i < mLayerHistory.getSize(); i++) ...: from slot i on, with
\* the newest present time and the differences so far.
RECURSIVE LayerDifferences(_, _, _, _, _)
LayerDifferences(h, layerName, i, newestPresentTime, differencesMs) ==
    IF i >= LayerHistory_getSize THEN differencesMs
    ELSE LET own == {layer \in LayerHistory_get(h, i) : layer[1] = layerName}
         IN  IF own = {}
                THEN LayerDifferences(h, layerName, i + 1, newestPresentTime, differencesMs)
                ELSE LET layer == CHOOSE e \in own : TRUE
                         differenceMs == Div(newestPresentTime - layer[2], NsPerMs)
                     IN  LayerDifferences(h, layerName, i + 1, layer[2],
                             IF differenceMs > 10 /\ differenceMs < 60
                                THEN Append(differencesMs, differenceMs)
                                ELSE differencesMs)

\* if (!differencesMs.empty()) { ... }: the three signals, in the order traced,
\* for each value calculate_median may give.
LayerSignals(layerName, differencesMs) ==
    IF differencesMs = <<>> THEN {<<>>}
    ELSE {<<Signal("TimestampMean_", layerName, ToInt64(calculate_mean(differencesMs))),
            Signal("TimestampMedian_", layerName, median),
            Signal("TimestampMode_", layerName, calculate_mode(differencesMs))>> :
          median \in calculate_median(differencesMs)}

\* The outcomes of the method: the history after the insert, the differences
\* found and the signals traced.
determineLayerTimestampStats(layerName, framePresentTime) ==
    UNION {LET differencesMs == LayerDifferences(h, layerName, 1, framePresentTime, <<>>)
           IN  {[history |-> h, differencesMs |-> differencesMs, signals |-> signals] :
                   signals \in LayerSignals(layerName, differencesMs)} :
           h \in LayerHistory_insert(mLayerHistory, layerName, framePresentTime)}

\* ------------------------------------------------------------------------
\* The frame methods.

NoFrame ==
    [called |-> FALSE, time |-> 0, auto |-> FALSE, layer |-> "", differenceMs |-> 0,
     written |-> FALSE, fresh |-> FALSE, differencesMs |-> <<>>]

\* The slot holds no entry of the layer.
Fresh(slot, layerName) == \A e \in slot : e[1] # layerName

\* determineTimestampAverage(isAutoTimestamp, framePresentTime);
\* determineLayerTimestampStats(layerName, framePresentTime);
addFramePresentTimeForLayer_body(framePresentTime, isAutoTimestamp, layerName) ==
    /\ ~crashed
    /\ LET average == determineTimestampAverage(isAutoTimestamp, framePresentTime)
       IN  /\ mTimeDifferences' = average.ring
           /\ mCounter' = average.counter
           /\ mPreviousFrameTimestamp' = average.previous
           /\ accepted' = IF average.written
                             THEN Append(accepted, average.differenceMs)
                             ELSE accepted
           /\ \E stats \in determineLayerTimestampStats(layerName, framePresentTime) :
                 /\ mLayerHistory' = stats.history
                 /\ atrace' = average.signals \o stats.signals
                 /\ lastFrame' =
                       [called |-> TRUE, time |-> framePresentTime,
                        auto |-> isAutoTimestamp, layer |-> layerName,
                        differenceMs |-> average.differenceMs,
                        written |-> average.written,
                        fresh |-> Fresh(mLayerHistory.elements[mLayerHistory.counter],
                                        layerName),
                        differencesMs |-> stats.differencesMs]
    /\ frames' = frames + 1
    /\ lastPresentTime' = framePresentTime

\* The method adapting the skip count to the frame rate it found.
addFramePresentTimeForLayer_feedsBack(framePresentTime, isAutoTimestamp, layerName) ==
    /\ addFramePresentTimeForLayer_body(framePresentTime, isAutoTimestamp, layerName)
    /\ mSkipCount' = IF \E i \in 1..Len(atrace') : atrace'[i].name = "FPS" THEN 1 ELSE 0
    /\ UNCHANGED <<hwVars, hist, regVars, lazyVars, dumpVars>>

addFramePresentTimeForLayer(framePresentTime, isAutoTimestamp, layerName) ==
    /\ addFramePresentTimeForLayer_body(framePresentTime, isAutoTimestamp, layerName)
    /\ UNCHANGED <<mSkipCount, hwVars, hist, regVars, lazyVars, dumpVars>>

\* mLayerHistory.incrementCounter();
incrementFrameCounter ==
    /\ ~crashed
    /\ mLayerHistory' = LayerHistory_incrementCounter(mLayerHistory)
    /\ atrace' = <<>>
    /\ lastFrame' = NoFrame
    /\ UNCHANGED <<mTimeDifferences, mCounter, mPreviousFrameTimestamp, mSkipCount,
                   accepted, frames, lastPresentTime, hwVars, hist, regVars, lazyVars,
                   dumpVars>>

\* The method without the test of line 229.
updateFrameSkipping_alwaysForwards(skipCount) ==
    /\ ~crashed
    /\ atrace' = <<Signal("FrameSkipCount", "", skipCount),
                   DispSyncCall("setRefreshSkipCount", skipCount)>>
    /\ mSkipCount' = skipCount
    /\ lastFrame' = NoFrame
    /\ UNCHANGED <<frameFields, accepted, frames, lastPresentTime, hwVars, hist, regVars,
                   lazyVars, dumpVars>>

updateFrameSkipping(skipCount) ==
    /\ ~crashed
    /\ atrace' = <<Signal("FrameSkipCount", "", skipCount)>>
                    \o (IF mSkipCount # skipCount
                           THEN <<DispSyncCall("setRefreshSkipCount", skipCount)>>
                           ELSE <<>>)
    /\ mSkipCount' = skipCount
    /\ lastFrame' = NoFrame
    /\ UNCHANGED <<frameFields, accepted, frames, lastPresentTime, hwVars, hist, regVars,
                   lazyVars, dumpVars>>

\* The caller presents a frame some time after the last one, limit frames at most.
Present(delta, isAutoTimestamp, layerName, limit) ==
    /\ frames < limit
    /\ addFramePresentTimeForLayer(lastPresentTime + delta, isAutoTimestamp, layerName)

\* The caller presents a frame with the given present time.
PresentAt(framePresentTime, isAutoTimestamp, layerName, limit) ==
    /\ frames < limit
    /\ addFramePresentTimeForLayer(framePresentTime, isAutoTimestamp, layerName)

\* ------------------------------------------------------------------------
\* Part 4, android::binder::internal::ClientCounterCallback
\* (libs/binder/LazyServiceRegistrar.cpp): the services a lazy process
\* registers, the count of those that have clients and the shutdown of the
\* process when none has.  The service manager is external: it answers
\* addService, registerClientCallback and tryUnregisterService, and it calls
\* onClients, one call at a time.

\* size_t arithmetic: SizeTLimbs limbs of LimbBase values each, lowest first;
\* a carry or borrow out of the highest limb is dropped, as unsigned
\* arithmetic does.
SizeT(n) == [i \in 1..SizeTLimbs |-> IF i = 1 THEN n ELSE 0]

RECURSIVE SizeInc(_)
SizeInc(v) ==
    IF v = <<>> THEN <<>>
    ELSE IF Head(v) = LimbBase - 1
            THEN <<0>> \o SizeInc(Tail(v))
            ELSE <<Head(v) + 1>> \o Tail(v)

RECURSIVE SizeDec(_)
SizeDec(v) ==
    IF v = <<>> THEN <<>>
    ELSE IF Head(v) = 0
            THEN <<LimbBase - 1>> \o SizeDec(Tail(v))
            ELSE <<Head(v) - 1>> \o Tail(v)

\* The names of the first n entries of the list.
Names(list, n) == {list[i] : i \in 1..n}

\* What addService and registerClientCallback answer to one registerService.
RegisterAnswers == {"ok", "addServiceFails", "registerClientCallbackFails"}

\* ClientCounterCallback::registerService: addService, then
\* registerClientCallback, then push_back; false as soon as one call fails.
registerService(list, registered, name, answer) ==
    [list |-> IF answer = "ok" THEN Append(list, name) ELSE list,
     registered |-> IF answer = "addServiceFails"
                       THEN registered
                       ELSE registered \cup {name},
     result |-> answer = "ok"]

\* The first loop of tryShutdown can get past the entries before firstFailure
\* only if the manager unregisters each of them: the name is registered and was
\* not unregistered by an earlier entry of the loop.
CanUnregister(list, registered, firstFailure) ==
    \A i \in 1..(firstFailure - 1) :
        /\ list[i] \in registered
        /\ \A j \in 1..(i - 1) : list[j] # list[i]

\* A push_back into mRegisteredServices while tryShutdown iterates over it may
\* reallocate the vector and leave reRegisterIt, unRegisterIt and entry
\* dangling: the process either goes on as if they were valid or dies at the
\* use that follows the push_back of entry faultAt (0: it goes on).
CanFault(answers, faultAt) ==
    faultAt = 0 \/ \E j \in 1..faultAt : answers[j] = "ok"

\* The second loop of tryShutdown from entry i on: registerService for every
\* entry before unRegisterIt.
RECURSIVE ReRegister(_, _, _, _, _)
ReRegister(state, i, firstFailure, answers, faultAt) ==
    IF i >= firstFailure \/ state.fault THEN state
    ELSE LET r == registerService(state.list, state.registered, state.list[i], answers[i])
         IN  ReRegister([list |-> r.list,
                         registered |-> r.registered,
                         reRegistered |-> Append(state.reRegistered, state.list[i]),
                         modified |-> state.modified \/ r.result,
                         fault |-> faultAt = i],
                        i + 1, firstFailure, answers, faultAt)

\* ClientCounterCallback::tryShutdown with the manager's answers: the entries
\* before firstFailure are unregistered; if that is all of them the process
\* exits, otherwise they are registered again.
tryShutdown(list, registered, firstFailure, answers, faultAt) ==
    LET unregistered == [i \in 1..(firstFailure - 1) |-> list[i]]
        left == registered \ Names(list, firstFailure - 1)
        start == [list |-> list, registered |-> left, reRegistered |-> <<>>,
                  modified |-> FALSE, fault |-> FALSE]
        end == IF firstFailure > Len(list)
                  THEN start
                  ELSE ReRegister(start, 1, firstFailure, answers, faultAt)
    IN  [ran |-> TRUE, before |-> list, unregistered |-> unregistered,
         exited |-> firstFailure > Len(list), list |-> end.list,
         registered |-> end.registered, reRegistered |-> end.reRegistered,
         modified |-> end.modified, fault |-> end.fault]

\* onClients when the counter is not zero after the update.
NoShutdown(list, registered) ==
    [ran |-> FALSE, before |-> list, unregistered |-> <<>>, exited |-> FALSE,
     list |-> list, registered |-> registered, reRegistered |-> <<>>,
     modified |-> FALSE, fault |-> FALSE]

\* The counter after onClients(service, clients).
CountAfter(count, clients) == IF clients THEN SizeInc(count) ELSE SizeDec(count)

\* The process runs: it has neither exited nor died.
Running == ~exited /\ ~iteratorFault

\* LazyServiceRegistrar::registerService called by the process for a service it
\* has not registered yet.
Call_registerService(name, answer) ==
    /\ Running
    /\ name \notin Names(mRegisteredServices, Len(mRegisteredServices))
    /\ name \notin managerServices
    /\ LET r == registerService(mRegisteredServices, managerServices, name, answer)
       IN  /\ mRegisteredServices' = r.list
           /\ managerServices' = r.registered
    /\ UNCHANGED <<mNumConnectedServices, exited, iteratorFault, hasClients, lastOnClients,
                   modifiedWhileIterated, notifications>>
    /\ UNCHANGED <<hwVars, hist, regVars, frameVars, dumpVars>>

\* ClientCounterCallback::onClients, called by the service manager for a service
\* whose client callback was registered.
onClients(name, clients) ==
    /\ Running
    /\ notifications < MaxNotifications
    /\ name \in Names(mRegisteredServices, Len(mRegisteredServices))
    /\ notifications' = notifications + 1
    /\ mNumConnectedServices' = CountAfter(mNumConnectedServices, clients)
    /\ hasClients' = [hasClients EXCEPT ![name] = clients]
    /\ \E firstFailure \in 1..(Len(mRegisteredServices) + 1) :
       \E answers \in [1..(firstFailure - 1) -> RegisterAnswers] :
       \E faultAt \in 0..(firstFailure - 1) :
          /\ CanUnregister(mRegisteredServices, managerServices, firstFailure)
          /\ CanFault(answers, faultAt)
          /\ LET done == IF mNumConnectedServices' = SizeT(0)
                            THEN tryShutdown(mRegisteredServices, managerServices,
                                             firstFailure, answers, faultAt)
                            ELSE NoShutdown(mRegisteredServices, managerServices)
             IN  /\ mRegisteredServices' = done.list
                 /\ managerServices' = done.registered
                 /\ exited' = done.exited
                 /\ iteratorFault' = done.fault
                 /\ modifiedWhileIterated' = (modifiedWhileIterated \/ done.modified)
                 /\ lastOnClients' = [called |-> TRUE, ran |-> done.ran,
                                      before |-> done.before,
                                      unregistered |-> done.unregistered,
                                      reRegistered |-> done.reRegistered]
    /\ UNCHANGED <<hwVars, hist, regVars, frameVars, dumpVars>>

NoOnClients ==
    [called |-> FALSE, ran |-> FALSE, before |-> <<>>, unregistered |-> <<>>,
     reRegistered |-> <<>>]

\* ClientCounterCallback(): mNumConnectedServices(0), no service registered.
LazyInit ==
    /\ mNumConnectedServices = SizeT(0)
    /\ mRegisteredServices = <<>>
    /\ managerServices = {}
    /\ exited = FALSE
    /\ iteratorFault = FALSE
    /\ hasClients = [s \in ServiceNames |-> FALSE]
    /\ lastOnClients = NoOnClients
    /\ modifiedWhileIterated = FALSE
    /\ notifications = 0

\* ------------------------------------------------------------------------
\* Part 5, Dumpstate::RunInternal and the user's consent
\* (cmds/dumpstate/dumpstate.cpp): the main thread runs RunInternal from the
\* consent request on, one step per statement that reads or writes the consent
\* result, while the incidentcompanion service delivers the user's answer to
\* Dumpstate::ConsentCallback on a binder thread at any moment.  Every access to
\* ConsentCallback::result_ is made under ConsentCallback::lock_ and is one step.

\* The method copying the file whenever consent was not denied.
CopyBugreportIfUserConsented_decide_unlessDenied(consent, copy_succeeded) ==
    CASE consent = "DENIED" ->
            [status |-> "USER_CONSENT_DENIED", copied |-> FALSE, cleaned |-> TRUE,
             unlinked |-> FALSE]
      [] OTHER ->
            [status |-> IF copy_succeeded THEN "OK" ELSE "ERROR",
             copied |-> copy_succeeded, cleaned |-> FALSE, unlinked |-> copy_succeeded]

\* Dumpstate::CopyBugreportIfUserConsented from line 2829 on, consent being the
\* result it read last: what it returns and what it does to the files.
CopyBugreportIfUserConsented_decide(consent, copy_succeeded) ==
    CASE consent = "DENIED" ->
            [status |-> "USER_CONSENT_DENIED", copied |-> FALSE, cleaned |-> TRUE,
             unlinked |-> FALSE]
      [] consent = "APPROVED" ->
            [status |-> IF copy_succeeded THEN "OK" ELSE "ERROR",
             copied |-> copy_succeeded, cleaned |-> FALSE, unlinked |-> copy_succeeded]
      [] consent = "UNAVAILABLE" ->
            [status |-> "USER_CONSENT_TIMED_OUT", copied |-> FALSE, cleaned |-> FALSE,
             unlinked |-> FALSE]
      [] OTHER ->
            [status |-> "ERROR", copied |-> FALSE, cleaned |-> FALSE, unlinked |-> FALSE]

\* The main thread moves on to the statement at label.
DumpGoto(label) ==
    /\ dpc' = label
    /\ UNCHANGED <<hwVars, hist, regVars, frameVars, lazyVars>>

\* RunInternal returns value to Run.
DumpReturn(value) ==
    /\ runStatus' = value
    /\ DumpGoto("done")

\* RunInternal is called with valid options; with a caller's fd it asks for the
\* user's consent (lines 2535-2539, CheckUserConsent), which reaches the user
\* only if the incidentcompanion service is there.
Call_RunInternal(fd, available, default) ==
    /\ dpc = "idle"
    /\ bugreport_fd' = fd
    /\ defaultMode' = default
    /\ consent_callback_' = fd
    /\ requested' = (fd /\ available)
    /\ result_' = "UNAVAILABLE"
    /\ DumpGoto("dump")
    /\ UNCHANGED <<consent_result, status, runStatus, copied, cleaned, cancelled>>

\* ConsentCallback::onReportApproved / onReportDenied: the service answers a
\* request once, unless the request was cancelled.
onReport(answer) ==
    /\ requested
    /\ ~cancelled
    /\ dpc \notin {"idle", "done"}
    /\ result_' = answer
    /\ requested' = FALSE
    /\ UNCHANGED <<dpc, bugreport_fd, defaultMode, consent_callback_, consent_result, status,
                   runStatus, copied, cleaned, cancelled>>
    /\ UNCHANGED <<hwVars, hist, regVars, frameVars, lazyVars>>

\* DumpstateDefault found the consent denied at one of its checks
\* (RETURN_IF_USER_DENIED_CONSENT): lines 2693-2698.
RunInternal_dumpDenied ==
    /\ dpc = "dump"
    /\ defaultMode
    /\ consent_callback_
    /\ result_ = "DENIED"
    /\ cleaned' = TRUE
    /\ DumpReturn("USER_CONSENT_DENIED")
    /\ UNCHANGED <<bugreport_fd, defaultMode, consent_callback_, requested, result_,
                   consent_result, status, copied, cancelled>>

\* The dump failed (the returns of ERROR before line 2712).
RunInternal_dumpError ==
    /\ dpc = "dump"
    /\ DumpReturn("ERROR")
    /\ UNCHANGED <<bugreport_fd, defaultMode, consent_callback_, requested, result_,
                   consent_result, status, copied, cleaned, cancelled>>

\* The dump went through, no check having seen a denial; line 2714.
RunInternal_dumped ==
    /\ dpc = "dump"
    /\ IF bugreport_fd THEN DumpGoto("copy_get") ELSE DumpGoto("final")
    /\ UNCHANGED <<bugreport_fd, defaultMode, consent_callback_, requested, result_,
                   consent_result, status, runStatus, copied, cleaned, cancelled>>

\* UserConsentResult consent_result = consent_callback_->getResult(); line 2818.
CopyBugreportIfUserConsented_get ==
    /\ dpc = "copy_get"
    /\ consent_result' = result_
    /\ IF result_ = "UNAVAILABLE" THEN DumpGoto("copy_elapsed") ELSE DumpGoto("copy_decide")
    /\ UNCHANGED <<bugreport_fd, defaultMode, consent_callback_, requested, result_, status,
                   runStatus, copied, cleaned, cancelled>>

\* if (elapsed_ms < USER_CONSENT_TIMEOUT_MS) sleep(delay_seconds); lines 2821-2826.
CopyBugreportIfUserConsented_elapsed ==
    /\ dpc = "copy_elapsed"
    /\ \E early \in BOOLEAN :
          IF early THEN DumpGoto("copy_sleep") ELSE DumpGoto("copy_reget")
    /\ UNCHANGED <<bugreport_fd, defaultMode, consent_callback_, requested, result_,
                   consent_result, status, runStatus, copied, cleaned, cancelled>>

\* sleep returns.
CopyBugreportIfUserConsented_sleep ==
    /\ dpc = "copy_sleep"
    /\ DumpGoto("copy_reget")
    /\ UNCHANGED <<bugreport_fd, defaultMode, consent_callback_, requested, result_,
                   consent_result, status, runStatus, copied, cleaned, cancelled>>

\* consent_result = consent_callback_->getResult(); line 2827.
CopyBugreportIfUserConsented_reget ==
    /\ dpc = "copy_reget"
    /\ consent_result' = result_
    /\ DumpGoto("copy_decide")
    /\ UNCHANGED <<bugreport_fd, defaultMode, consent_callback_, requested, result_, status,
                   runStatus, copied, cleaned, cancelled>>

\* Lines 2829-2849; CopyFileToFd succeeds or not.
CopyBugreportIfUserConsented_return ==
    /\ dpc = "copy_decide"
    /\ \E copy_succeeded \in BOOLEAN :
          LET done == CopyBugreportIfUserConsented_decide(consent_result, copy_succeeded)
          IN  /\ status' = done.status
              /\ copied' = done.copied
              /\ cleaned' = done.cleaned
    /\ DumpGoto("copy_returned")
    /\ UNCHANGED <<bugreport_fd, defaultMode, consent_callback_, requested, result_,
                   consent_result, runStatus, cancelled>>

\* Lines 2716-2745: an early return unless the status is OK or timed out; on a
\* time-out the request is cancelled.
RunInternal_copied ==
    /\ dpc = "copy_returned"
    /\ IF status \notin {"OK", "USER_CONSENT_TIMED_OUT"}
          THEN DumpReturn(status) /\ UNCHANGED cancelled
          ELSE /\ DumpGoto("final")
               /\ cancelled' = (status = "USER_CONSENT_TIMED_OUT")
               /\ UNCHANGED runStatus
    /\ UNCHANGED <<bugreport_fd, defaultMode, consent_callback_, requested, result_,
                   consent_result, status, copied, cleaned>>

\* Lines 2778-2781.
RunInternal_final ==
    /\ dpc = "final"
    /\ DumpReturn(IF consent_callback_ /\ result_ = "UNAVAILABLE"
                     THEN "USER_CONSENT_TIMED_OUT"
                     ELSE "OK")
    /\ UNCHANGED <<bugreport_fd, defaultMode, consent_callback_, requested, result_,
                   consent_result, status, copied, cleaned, cancelled>>

RunInternal ==
    \/ RunInternal_dumpDenied
    \/ RunInternal_dumpError
    \/ RunInternal_dumped
    \/ CopyBugreportIfUserConsented_get
    \/ CopyBugreportIfUserConsented_elapsed
    \/ CopyBugreportIfUserConsented_sleep
    \/ CopyBugreportIfUserConsented_reget
    \/ CopyBugreportIfUserConsented_return
    \/ RunInternal_copied
    \/ RunInternal_final

\* A Dumpstate before RunInternal: no consent callback yet.
DumpInit ==
    /\ dpc = "idle"
    /\ bugreport_fd = FALSE
    /\ defaultMode = FALSE
    /\ consent_callback_ = FALSE
    /\ requested = FALSE
    /\ result_ = "UNAVAILABLE"
    /\ consent_result = "UNAVAILABLE"
    /\ status = "OK"
    /\ runStatus = "none"
    /\ copied = FALSE
    /\ cleaned = FALSE
    /\ cancelled = FALSE

\* ------------------------------------------------------------------------
\* The state of a new Scheduler.

\* The ring buffer starts zeroed with the write counter and the stored
\* timestamp at 0; the layer history starts with empty slots.
EmptyLayerHistory ==
    [elements |-> [i \in 0..(LayerHistorySize - 1) |-> {}], counter |-> 0]

FrameObserverInit ==
    /\ mSkipCount = 0
    /\ atrace = <<>>
    /\ lastFrame = NoFrame
    /\ accepted = <<>>
    /\ frames = 0
    /\ lastPresentTime = 0

FrameInit ==
    /\ mTimeDifferences = [i \in 1..ARRAY_SIZE |-> 0]
    /\ mCounter = 0
    /\ mPreviousFrameTimestamp = 0
    /\ mLayerHistory = EmptyLayerHistory
    /\ FrameObserverInit

\* Scheduler::Scheduler: mPrimaryHWVsyncEnabled(false), mHWVsyncAvailable(false).
HWInit ==
    /\ mPrimaryHWVsyncEnabled = FALSE
    /\ mHWVsyncAvailable = FALSE
    /\ mHWVsyncLock = Free
    /\ pc = [t \in Threads |-> "idle"]
    /\ op = [t \in Threads |-> NoOp]
    /\ needsHwVsync = [t \in Threads |-> FALSE]
    /\ makeUnavailable = [t \in Threads |-> FALSE]
    /\ trace = [t \in Threads |-> <<>>]
    /\ pre = [t \in Threads |-> [enabled |-> FALSE, available |-> FALSE]]
    /\ hwVsyncOn = FALSE
    /\ resyncActive = FALSE
    /\ hist = <<>>
    /\ overtaken = [t \in Threads |-> FALSE]

\* std::atomic<int64_t> Scheduler::sNextId = 0; every Scheduler starts with an
\* empty mConnections.
RegInit ==
    /\ sNextId = 0
    /\ mConnections = [s \in Schedulers |-> <<>>]
    /\ eventThreads = [s \in Schedulers |-> <<>>]
    /\ local = [t \in Threads |-> NoLocal]
    /\ result = [t \in Threads |-> Null]
    /\ returned = <<>>
    /\ crashed = FALSE

vars == <<hwVars, hist, regVars, frameVars, lazyVars, dumpVars>>

Init == HWInit /\ RegInit /\ FrameInit /\ LazyInit /\ DumpInit

\* One caller at a time: the methods run to completion one after the other.
NextSeq == HWCall(MainThread) \/ HWStep(MainThread) \/ ReturnObserved(MainThread)

SpecSeq == Init /\ [][NextSeq]_vars

\* Concurrent callers.
Next == \E t \in Threads : HWCall(t) \/ HWStep(t) \/ Return(t)

Spec == Init /\ [][Next]_vars

\* Concurrent callers with fair lock acquisition: a thread that could take a
\* step again and again (the mutex being free again and again while it waits)
\* eventually takes it, and a method at its end returns to its caller.  Callers
\* are not obliged to call.
SpecFair ==
    /\ Init
    /\ [][Next]_vars
    /\ \A t \in Threads : SF_vars(HWStep(t) \/ Return(t))

\* Concurrent callers creating connections on any Scheduler while hardware
\* vsync is switched on and off.
NextReg ==
    \/ \E t \in Threads :
          \/ \E s \in Schedulers, a \in ConnectionArgs :
                Call_createConnection(t, s, a[1], a[2])
          \/ createConnection(t)
          \/ RegReturn(t)
    \/ Call_makeHWSyncAvailable(MainThread, TRUE)
    \/ Call_enableHardwareVsync(MainThread)
    \/ Call_disableHardwareVsync(MainThread, FALSE)
    \/ makeHWSyncAvailable(MainThread)
    \/ enableHardwareVsync(MainThread)
    \/ disableHardwareVsync(MainThread)
    \/ Return(MainThread)

SpecReg == Init /\ [][NextReg]_vars

\* The connection methods called by one caller, one after the other (the
\* caller contract of the unsynchronised mConnections).
NextRegSeq ==
    \/ \E s \in Schedulers, a \in ConnectionArgs :
          Call_createConnection(MainThread, s, a[1], a[2])
    \/ createConnection(MainThread)
    \/ HandleMethod(MainThread)
    \/ RegReturn(MainThread)

SpecRegSeq == Init /\ [][NextRegSeq]_vars

\* ------------------------------------------------------------------------
\* Frames presented one after the other to a new Scheduler: intervals below,
\* at and above both ends of the accepted range, one that goes back in time,
\* and frames with an automatic timestamp.
AvgDeltasNs == {-5000000, 5000000, 10000000, 16000000, 33000000, 100999999, 101000000,
                120000000}
AutoDeltasNs == {16000000}
MaxAvgFrames == ARRAY_SIZE + 1

NextAvg ==
    \/ \E delta \in AvgDeltasNs : Present(delta, FALSE, "A", MaxAvgFrames)
    \/ \E delta \in AutoDeltasNs : Present(delta, TRUE, "A", MaxAvgFrames)

SpecAvg == Init /\ [][NextAvg]_vars

\* The ring buffer as any run of accepted frames can have left it: the slots
\* not yet written are zero, the written ones hold accepted intervals.
RingValues == {16, 100}

RingStates ==
    {r \in [ring : [1..ARRAY_SIZE -> RingValues \cup {0}],
            counter : 0..(2 * ARRAY_SIZE - 1)] :
        \A i \in 1..ARRAY_SIZE : (r.ring[i] = 0) <=> (i > r.counter)}

InitConverge ==
    /\ HWInit
    /\ RegInit
    /\ LazyInit
    /\ DumpInit
    /\ FrameObserverInit
    /\ mLayerHistory = EmptyLayerHistory
    /\ mPreviousFrameTimestamp = 0
    /\ \E r \in RingStates : mTimeDifferences = r.ring /\ mCounter = r.counter

MaxConvergeFrames == ARRAY_SIZE + 3

\* Frames 33 ms apart, with frames 120 ms apart and frames with an automatic
\* timestamp in between.
NextConverge ==
    \/ Present(33000000, FALSE, "A", MaxConvergeFrames)
    \/ Present(120000000, FALSE, "A", MaxConvergeFrames)
    \/ Present(16000000, TRUE, "A", MaxConvergeFrames)

SpecConverge == InitConverge /\ [][NextConverge]_vars

\* A full ring buffer of intervals around the ends of the three bands, and one
\* more accepted frame.
BandValues == {14, 15, 18, 31, 32, 34, 39, 40, 42}

InitBands ==
    /\ HWInit
    /\ RegInit
    /\ LazyInit
    /\ DumpInit
    /\ FrameObserverInit
    /\ mLayerHistory = EmptyLayerHistory
    /\ mPreviousFrameTimestamp = 0
    /\ mTimeDifferences \in [1..ARRAY_SIZE -> BandValues]
    /\ mCounter \in {ARRAY_SIZE, ARRAY_SIZE + 1}

NextBands == \E v \in BandValues : Present(v * NsPerMs, FALSE, "A", 1)

SpecBands == InitBands /\ [][NextBands]_vars

\* Frames with automatic timestamps, presented in the frame slots the caller
\* opens with incrementFrameCounter: the frames of one layer, after a first frame
\* of either layer.
LayerTimesNs == {0, 16000000, 33000000, 49000000}
OtherLayerTimesNs == {20000000}
MaxLayerFrames == LayerHistorySize + 1

NextLayer ==
    \/ \E time \in LayerTimesNs : PresentAt(time, TRUE, "A", MaxLayerFrames)
    \/ \E time \in OtherLayerTimesNs : PresentAt(time, TRUE, "B", 1)
    \/ incrementFrameCounter

SpecLayer == Init /\ [][NextLayer]_vars

\* Frames of two layers in the slots the caller opens with incrementFrameCounter,
\* at present times whose distances lie at and next to both ends of the range
\* the per-layer statistics accept.
NoiseTimesNs == {0, 10999999, 11000000, 70999999}
NoiseOtherTimesNs == {35000000}
MaxNoiseFrames == LayerHistorySize - 1

NextNoise ==
    \/ \E time \in NoiseTimesNs : PresentAt(time, TRUE, "A", MaxNoiseFrames)
    \/ \E time \in NoiseOtherTimesNs : PresentAt(time, TRUE, "B", MaxNoiseFrames)
    \/ incrementFrameCounter

SpecNoise == Init /\ [][NextNoise]_vars

\* One caller calling the frame methods, the hardware vsync methods and
\* createConnection one after the other.
SkipCounts == {0, 1}
FrameDeltasNs == {16000000}
MaxFrames == 1

NextFrames ==
    \/ Call_makeHWSyncAvailable(MainThread, TRUE)
    \/ Call_enableHardwareVsync(MainThread)
    \/ makeHWSyncAvailable(MainThread)
    \/ enableHardwareVsync(MainThread)
    \/ Return(MainThread)
    \/ \E a \in ConnectionArgs : Call_createConnection(MainThread, "s1", a[1], a[2])
    \/ createConnection(MainThread)
    \/ RegReturn(MainThread)
    \/ /\ pc[MainThread] = "idle"
       /\ \E delta \in FrameDeltasNs, isAutoTimestamp \in BOOLEAN :
             Present(delta, isAutoTimestamp, "A", MaxFrames)
    \/ pc[MainThread] = "idle" /\ incrementFrameCounter
    \/ /\ pc[MainThread] = "idle"
       /\ \E skipCount \in SkipCounts : updateFrameSkipping(skipCount)

SpecFrames == Init /\ [][NextFrames]_vars

\* ------------------------------------------------------------------------
\* A lazy process registering its services while the service manager reports
\* clients coming and going, any notification for any registered service.
NextLazy ==
    \/ \E name \in ServiceNames, answer \in RegisterAnswers :
          Call_registerService(name, answer)
    \/ \E name \in ServiceNames, clients \in BOOLEAN : onClients(name, clients)

SpecLazy == Init /\ [][NextLazy]_vars

\* One run of Dumpstate::RunInternal with or without a caller's fd, the user
\* answering the consent request at any moment or never.
NextDump ==
    \/ \E fd, available, default \in BOOLEAN : Call_RunInternal(fd, available, default)
    \/ \E answer \in {"APPROVED", "DENIED"} : onReport(answer)
    \/ RunInternal

SpecDump == Init /\ [][NextDump]_vars

\* ========================================================================
\* Properties of the hardware vsync methods.

\* What a method's events say.
Issued(tr, name) == \E i \in 1..Len(tr) : tr[i].ev = name

IssuedSetVsyncEnabled(tr, value) ==
    \E i \in 1..Len(tr) : tr[i].ev = "setVsyncEnabled" /\ tr[i].arg = value

SwitchedOff(tr) == IssuedSetVsyncEnabled(tr, FALSE) \/ Issued(tr, "endResync")

SwitchedOn(tr) == IssuedSetVsyncEnabled(tr, TRUE) \/ Issued(tr, "beginResync")

\* DispSync answered "more samples needed" to the method's addResyncSample.
NeedsMore(tr) ==
    \E i \in 1..Len(tr) : tr[i].ev = "addResyncSample" /\ tr[i].res = TRUE

IsCall(r, name) == r.op.name = name

IsDisableFalse(r) == r.op.name = "disableHardwareVsync" /\ r.op.arg = FALSE

\* C1: between the Scheduler's methods (no method running), hwVsyncEnabled
\* implies hwVsyncAvailable.
C1_EnabledImpliesAvailable ==
    pc[MainThread] = "idle" => (mPrimaryHWVsyncEnabled => mHWVsyncAvailable)

\* C2: of two enableHardwareVsync calls in a row, the second leaves both fields
\* as the first left them and issues neither beginResync nor setVsyncEnabled.
C2_EnableIdempotent ==
    \A i \in 1..(Len(hist) - 1) :
        (IsCall(hist[i], "enableHardwareVsync") /\ IsCall(hist[i + 1], "enableHardwareVsync"))
            => /\ hist[i + 1].post = hist[i].post
               /\ ~Issued(hist[i + 1].trace, "beginResync")
               /\ ~Issued(hist[i + 1].trace, "setVsyncEnabled")

\* C2's case: two calls in a row, the first of which did switch the hardware on.
C2_Witness ==
    /\ Len(hist) = 2
    /\ IsCall(hist[1], "enableHardwareVsync")
    /\ IsCall(hist[2], "enableHardwareVsync")
    /\ SwitchedOn(hist[1].trace)
    /\ hist[2].post.enabled

\* C3: of two disableHardwareVsync(false) calls in a row, the second leaves both
\* fields as the first left them and issues neither setVsyncEnabled(false) nor
\* endResync.
C3_DisableIdempotent ==
    \A i \in 1..(Len(hist) - 1) :
        (IsDisableFalse(hist[i]) /\ IsDisableFalse(hist[i + 1]))
            => /\ hist[i + 1].post = hist[i].post
               /\ ~SwitchedOff(hist[i + 1].trace)

\* C3's case: two calls in a row, the first of which did switch the hardware off.
C3_Witness ==
    /\ Len(hist) = 2
    /\ IsDisableFalse(hist[1])
    /\ IsDisableFalse(hist[2])
    /\ SwitchedOff(hist[1].trace)
    /\ ~hist[2].post.enabled

\* The running addResyncSample of the main thread was called with hardware sync
\* enabled and DispSync has not answered it "no more samples".
ResyncStillNeeded ==
    /\ op[MainThread].name = "addResyncSample"
    /\ pre[MainThread].enabled
    /\ \/ pc[MainThread] \in {"ars_lock", "ars_check", "ars_sample"}
       \/ needsHwVsync[MainThread]

\* The two calls before the running one were addResyncSample calls answered
\* "needs more".
TwoNeedsMoreBefore ==
    /\ Len(hist) >= 2
    /\ \A i \in {Len(hist) - 1, Len(hist)} :
          IsCall(hist[i], "addResyncSample") /\ NeedsMore(hist[i].trace)

\* C4: while addResyncSample calls follow one another and DispSync answers
\* "needs more" to each, hardware sync stays enabled in every state, inside the
\* calls too, and nothing switches it off: for three calls in a row, from the
\* start of the first to the return of the third.
C4_ResyncFeedbackLoop ==
    /\ ResyncStillNeeded
          => mPrimaryHWVsyncEnabled /\ ~SwitchedOff(trace[MainThread])
    /\ (ResyncStillNeeded /\ TwoNeedsMoreBefore)
          => \A i \in {Len(hist) - 1, Len(hist)} :
                /\ hist[i].pre.enabled
                /\ hist[i].post.enabled
                /\ ~SwitchedOff(hist[i].trace)

\* C4's case: the third of three calls answered "needs more" is about to return.
C4_Witness ==
    /\ TwoNeedsMoreBefore
    /\ op[MainThread].name = "addResyncSample"
    /\ pc[MainThread] = "ret"
    /\ NeedsMore(trace[MainThread])
    /\ mPrimaryHWVsyncEnabled

\* The methods that ask for hardware sync to be enabled.
EnableRequests ==
    {"enableHardwareVsync", "addResyncSample", "addPresentFence", "setVsyncPeriod"}

\* C5: a method that may request enabling and is called while hwVsyncAvailable is
\* false returns without having set hwVsyncEnabled to true and without a
\* beginResync or setVsyncEnabled(true) call, and leaves hwVsyncAvailable false.
C5_UnavailableIgnoresEnable ==
    \A i \in 1..Len(hist) :
        (hist[i].op.name \in EnableRequests /\ ~hist[i].pre.available)
            => /\ ~(hist[i].post.enabled /\ ~hist[i].pre.enabled)
               /\ ~SwitchedOn(hist[i].trace)
               /\ ~hist[i].post.available

\* C5's case: two enable requests in a row while unavailable and disabled, the
\* last one of a kind that asks unconditionally.
C5_Witness ==
    /\ Len(hist) = 2
    /\ hist[1].op.name \in EnableRequests
    /\ ~hist[1].pre.available
    /\ ~hist[1].pre.enabled
    /\ IsCall(hist[2], "setVsyncPeriod")
    /\ ~hist[2].post.enabled

\* C9: every read and write of the two fields is made by a thread that owns
\* mHWVsyncLock at that moment.
C9_FieldsGuardedByLock ==
    \A t \in Threads : \A i \in 1..Len(trace[t]) :
        trace[t][i].ev \in {"read", "write"} => trace[t][i].held

\* C9's case: one thread has written a field under the lock while another is
\* blocked on the lock.
C9_Witness ==
    \E t, u \in Threads :
        /\ t # u
        /\ mHWVsyncLock = t
        /\ Issued(trace[t], "write")
        /\ pc[u] \in {"en_lock", "dis_lock", "ars_lock", "mk_lock"}

\* The thread is inside addResyncSample / addPresentFence at the call of a toggle
\* function: about to make it, or in it and not yet past its lock_guard.
AtToggleCall(t) ==
    /\ op[t].name \in {"addResyncSample", "addPresentFence"}
    /\ pc[t] \in {"ars_branch", "apf_branch", "en_lock", "dis_lock"}

C11_SetVsyncEnabledOutsideLock ==
    \A t \in Threads : \A i \in 1..Len(trace[t]) :
        trace[t][i].ev = "setVsyncEnabled" => ~trace[t][i].held

\* What a method did besides reading the fields, in order: each write and each
\* external call with its argument.
Effects(tr) ==
    LET acts == SelectSeq(tr, LAMBDA e : e.ev # "read")
    IN  [i \in 1..Len(acts) |-> <<acts[i].ev, acts[i].arg>>]

\* Every event of the method was made by the owner of mHWVsyncLock.
AllHeld(tr) == \A i \in 1..Len(tr) : tr[i].held

\* C19: enableHardwareVsync called with hwVsyncEnabled false and hwVsyncAvailable
\* true does beginResync, setVsyncEnabled(true) and hwVsyncEnabled := true, in
\* this order and owning the lock throughout; called in any other state it makes
\* no external call and changes no field; it never changes hwVsyncAvailable.
C19_EnableTransition ==
    \A i \in 1..Len(hist) :
        IsCall(hist[i], "enableHardwareVsync")
            => /\ hist[i].post.available = hist[i].pre.available
               /\ AllHeld(hist[i].trace)
               /\ IF ~hist[i].pre.enabled /\ hist[i].pre.available
                     THEN /\ Effects(hist[i].trace)
                                = << <<"beginResync", "none">>,
                                     <<"setVsyncEnabled", TRUE>>,
                                     <<"write", "mPrimaryHWVsyncEnabled">> >>
                          /\ hist[i].post.enabled
                     ELSE /\ Effects(hist[i].trace) = <<>>
                          /\ hist[i].post = hist[i].pre

\* C19's case: a call that switched the hardware on, after a call made while
\* unavailable that did nothing.
C19_Witness ==
    /\ Len(hist) = 2
    /\ IsCall(hist[1], "makeHWSyncAvailable")
    /\ IsCall(hist[2], "enableHardwareVsync")
    /\ ~hist[2].pre.enabled
    /\ hist[2].pre.available
    /\ hist[2].post.enabled
    /\ hwVsyncOn
    /\ resyncActive

\* C20: disableHardwareVsync called with hwVsyncEnabled true does
\* setVsyncEnabled(false), endResync and hwVsyncEnabled := false, in this order,
\* and otherwise makes no external call; with makeUnavailable true it leaves
\* hwVsyncAvailable false whatever the enabled state was, with makeUnavailable
\* false it leaves hwVsyncAvailable as it was.
C20_DisableTransition ==
    \A i \in 1..Len(hist) :
        IsCall(hist[i], "disableHardwareVsync")
            => LET switchOff == IF hist[i].pre.enabled
                                   THEN << <<"setVsyncEnabled", FALSE>>,
                                           <<"endResync", "none">>,
                                           <<"write", "mPrimaryHWVsyncEnabled">> >>
                                   ELSE <<>>
                   unavailable == IF hist[i].op.arg
                                     THEN << <<"write", "mHWVsyncAvailable">> >>
                                     ELSE <<>>
               IN  /\ Effects(hist[i].trace) = switchOff \o unavailable
                   /\ ~hist[i].post.enabled
                   /\ hist[i].post.available
                         = (IF hist[i].op.arg THEN FALSE ELSE hist[i].pre.available)

\* C20's case: disableHardwareVsync(true) called while disabled and available,
\* after a disableHardwareVsync(false) that switched the hardware off.
C20_Witness ==
    /\ Len(hist) = 2
    /\ IsDisableFalse(hist[1])
    /\ hist[1].pre.enabled
    /\ SwitchedOff(hist[1].trace)
    /\ hist[1].post.available
    /\ IsCall(hist[2], "disableHardwareVsync")
    /\ hist[2].op.arg
    /\ ~hist[2].post.available

\* C21: addResyncSample called while hwVsyncEnabled is false hands no sample to
\* DispSync, makes no setVsyncEnabled, beginResync or endResync call and leaves
\* both fields as they were, also when hardware sync is available.
C21_SampleOnlyWhenEnabled ==
    \A i \in 1..Len(hist) :
        (IsCall(hist[i], "addResyncSample") /\ ~hist[i].pre.enabled)
            => /\ Effects(hist[i].trace) = <<>>
               /\ hist[i].post = hist[i].pre

\* C21's case: a resync sample arrived while hardware sync was available and
\* disabled, and it stayed disabled.
C21_Witness ==
    /\ Len(hist) = 2
    /\ IsCall(hist[1], "makeHWSyncAvailable")
    /\ IsCall(hist[2], "addResyncSample")
    /\ hist[2].pre.available
    /\ ~hist[2].pre.enabled
    /\ ~hist[2].post.enabled
    /\ ~hwVsyncOn

\* C22: addResyncSample called while hwVsyncEnabled is true and answered "no more
\* samples" by DispSync makes, after the sample, exactly setVsyncEnabled(false),
\* then endResync, then hwVsyncEnabled := false, and leaves hwVsyncAvailable as it
\* was.
C22_NoMoreSamplesDisables ==
    \A i \in 1..Len(hist) :
        (/\ IsCall(hist[i], "addResyncSample")
         /\ hist[i].pre.enabled
         /\ Answers(hist[i].trace) = <<FALSE>>)
            => /\ Effects(hist[i].trace)
                     = << <<"addResyncSample", hist[i].op.arg>>,
                          <<"setVsyncEnabled", FALSE>>,
                          <<"endResync", "none">>,
                          <<"write", "mPrimaryHWVsyncEnabled">> >>
               /\ ~hist[i].post.enabled
               /\ hist[i].post.available = hist[i].pre.available

\* C22's case: hardware sync was switched on, and the sample that followed was
\* answered "no more samples" and switched it off.
C22_Witness ==
    /\ Len(hist) = 2
    /\ IsCall(hist[1], "enableHardwareVsync")
    /\ SwitchedOn(hist[1].trace)
    /\ IsCall(hist[2], "addResyncSample")
    /\ Answers(hist[2].trace) = <<FALSE>>
    /\ hist[2].post.available
    /\ ~mPrimaryHWVsyncEnabled
    /\ ~hwVsyncOn
    /\ ~resyncActive

\* C23: addPresentFence hands the fence to DispSync first, once, in whatever state
\* the fields are; answered "needs more" it does what enableHardwareVsync does
\* (hwVsyncEnabled ends true iff it was true or hwVsyncAvailable is true, nothing
\* is switched off), otherwise what disableHardwareVsync(false) does
\* (hwVsyncEnabled ends false, switched off iff it was true); hwVsyncAvailable
\* stays as it was.
C23_PresentFenceAlwaysHanded ==
    \A i \in 1..Len(hist) :
        IsCall(hist[i], "addPresentFence")
            => LET tr == hist[i].trace
               IN  /\ Len(Answers(tr)) = 1
                   /\ tr[1].ev = "addPresentFence"
                   /\ tr[1].arg = hist[i].op.arg
                   /\ hist[i].post.available = hist[i].pre.available
                   /\ IF tr[1].res
                         THEN /\ hist[i].post.enabled
                                    = (hist[i].pre.enabled \/ hist[i].pre.available)
                              /\ SwitchedOn(tr)
                                    = (~hist[i].pre.enabled /\ hist[i].pre.available)
                              /\ ~SwitchedOff(tr)
                         ELSE /\ ~hist[i].post.enabled
                              /\ SwitchedOff(tr) = hist[i].pre.enabled
                              /\ ~SwitchedOn(tr)

\* C23's case: a fence answered "needs more" while hardware sync was disabled and
\* available switched it on.
C23_Witness ==
    /\ Len(hist) = 2
    /\ IsCall(hist[2], "addPresentFence")
    /\ ~hist[2].pre.enabled
    /\ hist[2].pre.available
    /\ Answers(hist[2].trace) = <<TRUE>>
    /\ hist[2].post.enabled
    /\ hwVsyncOn

\* C24: setVsyncPeriod(p) calls reset, then setPeriod(p), then
\* enableHardwareVsync, whose locked read of the fields comes third and which
\* alone makes the method's other calls; called while hwVsyncAvailable is true it
\* returns with hwVsyncEnabled true.
C24_SetVsyncPeriodOrder ==
    \A i \in 1..Len(hist) :
        IsCall(hist[i], "setVsyncPeriod")
            => LET tr == hist[i].trace
               IN  /\ Len(tr) >= 3
                   /\ tr[1].ev = "reset"
                   /\ tr[2].ev = "setPeriod"
                   /\ tr[2].arg = hist[i].op.arg
                   /\ tr[3].ev = "read"
                   /\ \A j \in 3..Len(tr) : tr[j].held
                   /\ \A j \in 4..Len(tr) :
                         tr[j].ev \in {"beginResync", "setVsyncEnabled", "write"}
                   /\ hist[i].pre.available => hist[i].post.enabled
                   /\ hist[i].post.available = hist[i].pre.available

\* C24's case: a period change made while hardware sync was available and
\* disabled switched it on.
C24_Witness ==
    /\ Len(hist) = 2
    /\ IsCall(hist[2], "setVsyncPeriod")
    /\ hist[2].pre.available
    /\ ~hist[2].pre.enabled
    /\ Effects(hist[2].trace)
          = << <<"reset", "none">>, <<"setPeriod", 33>>, <<"beginResync", "none">>,
               <<"setVsyncEnabled", TRUE>>, <<"write", "mPrimaryHWVsyncEnabled">> >>
    /\ mPrimaryHWVsyncEnabled

\* The method called beginResync after reset.
ResyncBegunAfterReset(tr) ==
    \E j, k \in 1..Len(tr) : j < k /\ tr[j].ev = "reset" /\ tr[k].ev = "beginResync"

\* C25 as stated: every setVsyncPeriod call made while hwVsyncAvailable is true
\* calls beginResync after reset, also when hardware sync was enabled before.
C25_PeriodChangeAlwaysResyncs ==
    \A i \in 1..Len(hist) :
        (IsCall(hist[i], "setVsyncPeriod") /\ hist[i].pre.available)
            => ResyncBegunAfterReset(hist[i].trace)

\* C25, amended: a setVsyncPeriod call made while hwVsyncAvailable is true calls
\* beginResync after reset iff hwVsyncEnabled was false before; made while it was
\* true it calls neither beginResync nor setVsyncEnabled and leaves it true.
C25_PeriodChangeResyncsWhenDisabled ==
    \A i \in 1..Len(hist) :
        (IsCall(hist[i], "setVsyncPeriod") /\ hist[i].pre.available)
            => /\ ResyncBegunAfterReset(hist[i].trace) = ~hist[i].pre.enabled
               /\ hist[i].pre.enabled
                     => /\ ~SwitchedOn(hist[i].trace)
                        /\ ~SwitchedOff(hist[i].trace)
                        /\ hist[i].post.enabled

\* C25's case: a period change that began a resync, followed by one made while
\* enabled that only reset DispSync and set the period.
C25_Witness ==
    /\ Len(hist) = 2
    /\ IsCall(hist[1], "setVsyncPeriod")
    /\ ResyncBegunAfterReset(hist[1].trace)
    /\ IsCall(hist[2], "setVsyncPeriod")
    /\ hist[2].pre.enabled
    /\ Effects(hist[2].trace) = << <<"reset", "none">>, <<"setPeriod", hist[2].op.arg>> >>
    /\ resyncActive

\* The step is thread t's call of setVsyncEnabled with the given argument.
CallsSetVsyncEnabled(t, enabled) ==
    /\ pc[t] = (IF enabled THEN "en_setVsyncEnabled" ELSE "dis_setVsyncEnabled")
    /\ pc'[t] # pc[t]

\* The step is thread t's call of beginResync / endResync.
CallsBeginResync(t) == pc[t] = "en_beginResync" /\ pc'[t] # pc[t]

CallsEndResync(t) == pc[t] = "dis_endResync" /\ pc'[t] # pc[t]

\* C30: with any number of the six methods running at once, whenever
\* mHWVsyncLock is free hwVsyncEnabled equals the argument of the last
\* setVsyncEnabled call (false before the first), and DispSync is in a resync
\* phase iff it is true; each setVsyncEnabled call has the argument opposite to
\* the call before it (the first one true) and is made inside a resync phase,
\* beginResync is called only outside a resync phase, right before
\* setVsyncEnabled(true), and endResync only inside one, after
\* setVsyncEnabled(false).
C30_EnabledTracksHardware ==
    [][/\ mHWVsyncLock' = Free
             => /\ mPrimaryHWVsyncEnabled' = hwVsyncOn'
                /\ resyncActive' = hwVsyncOn'
       /\ \A t \in Threads :
             /\ \A enabled \in BOOLEAN :
                   CallsSetVsyncEnabled(t, enabled)
                      => /\ hwVsyncOn = ~enabled
                         /\ hwVsyncOn' = enabled
                         /\ resyncActive
                         /\ mHWVsyncLock = t
             /\ CallsBeginResync(t)
                   => ~resyncActive /\ ~hwVsyncOn /\ pc'[t] = "en_setVsyncEnabled"
             /\ CallsEndResync(t)
                   => resyncActive /\ ~hwVsyncOn /\ ~resyncActive']_vars

\* C30's case: one thread has switched hardware sync on and another, deciding on
\* DispSync's answer, has switched it off again, neither method having returned.
C30_Witness ==
    \E t, u \in Threads :
        /\ t # u
        /\ IssuedSetVsyncEnabled(trace[t], TRUE)
        /\ IssuedSetVsyncEnabled(trace[u], FALSE)
        /\ op[u].name \in {"addResyncSample", "addPresentFence"}
        /\ mHWVsyncLock = Free
        /\ ~mPrimaryHWVsyncEnabled
        /\ ~hwVsyncOn
        /\ ~resyncActive

\* C31: a disable decided by addResyncSample or addPresentFence never turns off a
\* resync that another thread began after the decision was taken: a thread that
\* was overtaken by another thread's beginResync between DispSync's answer and
\* its own disableHardwareVsync(false) makes no setVsyncEnabled(false) and no
\* endResync call.
C31_StaleDisableKeepsResync ==
    \A t \in Threads : overtaken[t] => ~SwitchedOff(trace[t])

\* The statements that acquire mHWVsyncLock (lines 152, 161, 181 and 207).
LockStatements == {"en_lock", "dis_lock", "ars_lock", "mk_lock"}

\* C32: no deadlock on the non-reentrant mHWVsyncLock: with threads concurrently
\* calling the six hardware vsync methods, no thread is ever about to acquire the
\* lock while it owns it, and under fair lock acquisition every method that was
\* started eventually returns.
C32_NoDeadlock ==
    /\ [](\A t \in Threads : pc[t] \in LockStatements => mHWVsyncLock # t)
    /\ \A t \in Threads : (pc[t] # "idle") ~> (pc[t] = "idle")

\* C32's case: a thread inside addResyncSample has released the lock of line 181
\* and waits at the lock of disableHardwareVsync, which the other thread owns
\* inside setVsyncPeriod's enableHardwareVsync.
C32_Witness ==
    \E t, u \in Threads :
        /\ t # u
        /\ op[t].name = "addResyncSample"
        /\ pc[t] = "dis_lock"
        /\ op[u].name = "setVsyncPeriod"
        /\ mHWVsyncLock = u

\* ========================================================================
\* Properties of the connections.

\* Thread t is in createConnection and holds the id it took from sNextId.
HoldsId(t) ==
    /\ op[t].name = "createConnection"
    /\ pc[t] \in {"cc_insert", "cc_return", "rret"}

\* C6: the ids that createConnection calls obtain are pairwise distinct, whatever
\* the threads and Schedulers of the calls and whatever hardware vsync toggling
\* goes on, and a call that starts after another has returned obtains, and
\* returns, a larger id than that one.
C6_UniqueIncreasingIds ==
    /\ \A i, j \in 1..Len(returned) : i # j => returned[i].id # returned[j].id
    /\ \A t \in Threads :
          HoldsId(t) =>
             /\ \A u \in Threads \ {t} : HoldsId(u) => local[u].id # local[t].id
             /\ \A i \in 1..local[t].doneBefore : returned[i].id < local[t].id
             /\ pc[t] # "rret" => \A i \in 1..Len(returned) : returned[i].id # local[t].id
             /\ (pc[t] = "rret" /\ ~crashed)
                   => /\ result[t] = Handle(local[t].id)
                      /\ \E i \in 1..Len(returned) :
                            /\ returned[i].id = local[t].id
                            /\ returned[i].scheduler = local[t].scheduler

\* C6's case: two threads hold ids at the same time on different Schedulers,
\* after an earlier call returned and with the hardware vsync switched on.
C6_Witness ==
    \E t, u \in Threads :
        /\ t # u
        /\ HoldsId(t) /\ pc[t] = "cc_insert"
        /\ HoldsId(u) /\ pc[u] = "cc_insert"
        /\ local[t].scheduler # local[u].scheduler
        /\ local[t].doneBefore >= 1
        /\ hwVsyncOn
        /\ mPrimaryHWVsyncEnabled

HandleMethods ==
    {"createDisplayEventConnection", "getEventThread", "getEventConnection",
     "hotplugReceived", "onScreenAcquired", "onScreenReleased", "setPhaseOffset", "dump"}

AdminMethods ==
    {"hotplugReceived", "onScreenAcquired", "onScreenReleased", "setPhaseOffset", "dump"}

\* The EventThread method a Scheduler method stands for.
PublisherMethod(name) ==
    IF name = "hotplugReceived" THEN "onHotplugReceived" ELSE name

\* The handle was returned by a createConnection call of Scheduler s.
ReturnedBy(s, handle) ==
    /\ handle # Null
    /\ \E i \in 1..Len(returned) :
          returned[i].scheduler = s /\ returned[i].id = handle[1]

\* The step is a whole call, by thread t, of a method that takes a handle.
HandleMethodCalled(t) ==
    /\ pc[t] = "idle"
    /\ pc'[t] = "rret"
    /\ op'[t].name \in HandleMethods

\* C7: a method called with a null handle, or with a handle that no
\* createConnection of that Scheduler returned, returns nullptr (if it returns a
\* value), calls no EventThread, and leaves mConnections and every EventThread
\* as they were.
C7_InvalidHandleIsNoOp ==
    [][\A t \in Threads :
          (HandleMethodCalled(t) /\ ~ReturnedBy(op'[t].arg[1], op'[t].arg[2]))
             => /\ mConnections' = mConnections
                /\ eventThreads' = eventThreads
                /\ trace'[t] = <<>>
                /\ result'[t] = Null
                /\ ~crashed']_vars

\* C7's case: setPhaseOffset was called on a Scheduler that has connections with
\* the handle of another Scheduler's connection, and did nothing.
C7_Witness ==
    \E t \in Threads :
        /\ pc[t] = "rret"
        /\ op[t].name = "setPhaseOffset"
        /\ op[t].arg[2] # Null
        /\ ~ReturnedBy(op[t].arg[1], op[t].arg[2])
        /\ \E s \in Schedulers \ {op[t].arg[1]} : ReturnedBy(s, op[t].arg[2])
        /\ DOMAIN mConnections[op[t].arg[1]] # {}
        /\ trace[t] = <<>>

\* C8: hotplugReceived, onScreenAcquired, onScreenReleased, setPhaseOffset and
\* dump called with a handle that a createConnection of that Scheduler returned
\* make exactly one call, the corresponding one with the same arguments, to the
\* EventThread of that connection, and leave mConnections and every other
\* EventThread as they were.
C8_ForwardedToAddressedOnly ==
    [][\A t \in Threads :
          (/\ HandleMethodCalled(t)
           /\ op'[t].name \in AdminMethods
           /\ ReturnedBy(op'[t].arg[1], op'[t].arg[2]))
             => LET s == op'[t].arg[1]
                    id == op'[t].arg[2][1]
                IN  /\ Len(trace'[t]) = 1
                    /\ trace'[t][1].ev = PublisherMethod(op'[t].name)
                    /\ trace'[t][1].arg = <<<<"thread", s, id>>, op'[t].arg[3]>>
                    /\ mConnections' = mConnections
                    /\ \A s2 \in Schedulers :
                          /\ DOMAIN eventThreads'[s2] = DOMAIN eventThreads[s2]
                          /\ \A k \in DOMAIN eventThreads[s2] :
                                <<s2, k>> # <<s, id>>
                                   => eventThreads'[s2][k] = eventThreads[s2][k]
                    /\ op'[t].name = "setPhaseOffset"
                          => eventThreads'[s][id].phaseOffset = op'[t].arg[3]
                    /\ ~crashed']_vars

\* C8's case: setPhaseOffset reached the EventThread of the addressed connection
\* while another connection of the same Scheduler and one of another Scheduler
\* keep their phase offset.
C8_Witness ==
    \E t \in Threads :
        /\ pc[t] = "rret"
        /\ op[t].name = "setPhaseOffset"
        /\ ReturnedBy(op[t].arg[1], op[t].arg[2])
        /\ Len(trace[t]) = 1
        /\ LET s == op[t].arg[1]
               id == op[t].arg[2][1]
           IN  /\ eventThreads[s][id].phaseOffset = op[t].arg[3]
               /\ \E k \in DOMAIN eventThreads[s] :
                     k # id /\ eventThreads[s][k].phaseOffset # op[t].arg[3]
               /\ \E s2 \in Schedulers \ {s} : DOMAIN eventThreads[s2] # {}

\* The connection createConnection makes for id on Scheduler s.
ConnectionOf(s, id) ==
    [handle |-> Handle(id),
     eventConnection |-> <<"eventConnection", s, id>>,
     thread |-> <<"thread", s, id>>]

\* The step is thread t's insert into mConnections / its return from
\* createConnection.
Inserts(t) == pc[t] = "cc_insert" /\ pc'[t] = "cc_return"

ReturnsHandle(t) == pc[t] = "cc_return" /\ pc'[t] = "rret"

\* C27: no step removes or changes an entry of mConnections; a createConnection
\* call adds exactly one entry, under the id of the handle it returns, to its
\* Scheduler's map and nothing else adds one; so every handle a createConnection
\* returned is found with its own non-null event thread and event connection
\* from then on, and getEventThread / getEventConnection return these.
C27_RegistryInsertOnly ==
    [][/\ \A s \in Schedulers : \A k \in DOMAIN mConnections[s] :
             k \in DOMAIN mConnections'[s] /\ mConnections'[s][k] = mConnections[s][k]
       /\ \A s \in Schedulers :
             DOMAIN mConnections'[s] \ DOMAIN mConnections[s]
                = {local[t].id : t \in {u \in Threads : Inserts(u) /\ local[u].scheduler = s}}
       /\ \A t \in Threads : Inserts(t) => local[t].id \notin DOMAIN mConnections[local[t].scheduler]
       /\ \A t \in Threads :
             ReturnsHandle(t)
                => /\ result'[t] = Handle(local[t].id)
                   /\ local[t].id \in DOMAIN mConnections'[local[t].scheduler]
       /\ \A i \in 1..Len(returned') :
             LET s == returned'[i].scheduler
                 id == returned'[i].id
             IN  /\ id \in DOMAIN mConnections'[s]
                 /\ mConnections'[s][id] = ConnectionOf(s, id)
                 /\ mConnections'[s][id].thread # Null
                 /\ mConnections'[s][id].eventConnection # Null
       /\ \A t \in Threads :
             (/\ HandleMethodCalled(t)
              /\ op'[t].name \in {"getEventThread", "getEventConnection"}
              /\ ReturnedBy(op'[t].arg[1], op'[t].arg[2]))
                => LET connection == mConnections[op'[t].arg[1]][op'[t].arg[2][1]]
                   IN  result'[t] = IF op'[t].name = "getEventThread"
                                       THEN connection.thread
                                       ELSE connection.eventConnection]_vars

\* C27's case: after two more connections were created, one on the same
\* Scheduler, the first handle still resolves to its own event thread.
C27_Witness ==
    \E t \in Threads :
        /\ pc[t] = "rret"
        /\ op[t].name = "getEventThread"
        /\ Len(returned) = 3
        /\ op[t].arg[1] = returned[1].scheduler
        /\ op[t].arg[2] = Handle(returned[1].id)
        /\ \E i \in 2..3 : returned[i].scheduler = returned[1].scheduler
        /\ result[t] = <<"thread", returned[1].scheduler, returned[1].id>>

\* ========================================================================
\* Properties of the frame pacing statistics.

\* The step is a call of addFramePresentTimeForLayer.
FramePresented == frames' = frames + 1

\* The values traced under a name of the global statistics.
Traced(name) ==
    LET signals == SelectSeq(atrace, LAMBDA s : s.kind = "atrace" /\ s.name = name)
    IN  [i \in 1..Len(signals) |-> signals[i].value]

\* C12: a frame with a non-automatic timestamp whose distance in ms from the
\* stored previous timestamp is below 10 or above 100 leaves the ring buffer, the
\* write counter and the mean of the buffer as they were; a distance of exactly
\* 10 or exactly 100 is written to the buffer.
C12_NoiseNeverUpdatesRing ==
    [][(FramePresented /\ ~lastFrame'.auto)
          => LET diffMs == Div(lastFrame'.time - mPreviousFrameTimestamp, NsPerMs)
             IN  /\ (diffMs < 10 \/ diffMs > 100)
                       => /\ mTimeDifferences' = mTimeDifferences
                          /\ mCounter' = mCounter
                          /\ calculate_mean(mTimeDifferences') = calculate_mean(mTimeDifferences)
                 /\ diffMs \in {10, 100}
                       => /\ mCounter' = mCounter + 1
                          /\ mTimeDifferences'[(mCounter % ARRAY_SIZE) + 1] = diffMs]_vars

\* C12's case: intervals of 10 and of 100 ms were written to the buffer and the
\* last frame, 120 ms after its predecessor, was not.
C12_Witness ==
    /\ lastFrame.called
    /\ ~lastFrame.auto
    /\ lastFrame.differenceMs = 120
    /\ ~lastFrame.written
    /\ accepted = <<10, 100>>
    /\ mCounter = 2

\* The last ARRAY_SIZE intervals written to the buffer were all of 33 ms.
FilledWith33 ==
    /\ Len(accepted) >= ARRAY_SIZE
    /\ \A i \in (Len(accepted) - ARRAY_SIZE + 1)..Len(accepted) : accepted[i] = 33

\* C13: whatever the ring buffer held before, once ARRAY_SIZE frames in a row
\* among the accepted ones came 33 ms apart, every accepted frame traces the
\* bucket 30, this one and each further one 33 ms apart.
C13_Converges30 ==
    (lastFrame.called /\ lastFrame.written /\ FilledWith33) => Traced("FPS") = <<30>>

\* C13's case: the buffer was full of other intervals, and one more frame came
\* 33 ms apart after the ARRAY_SIZE frames that replaced them.
C13_Witness ==
    /\ lastFrame.called
    /\ lastFrame.written
    /\ FilledWith33
    /\ Len(accepted) = ARRAY_SIZE + 1
    /\ mCounter > 2 * ARRAY_SIZE
    /\ Traced("FPS") = <<30>>

\* The bucket for a mean m.
Bucket(is60, is30, is24) ==
    IF is60 THEN <<60>> ELSE IF is30 THEN <<30>> ELSE IF is24 THEN <<24>> ELSE <<>>

OwnTimes(layerName) ==
    LET slots == [i \in 1..LayerHistorySize |-> LayerHistory_get(mLayerHistory, i - 1)]
        own == SelectSeq(slots, LAMBDA slot : \E e \in slot : e[1] = layerName)
    IN  [k \in 1..Len(own) |-> (CHOOSE e \in own[k] : e[1] = layerName)[2]]

\* The distance in ms of each time to the next older one.
Deltas(times) ==
    [k \in 1..(Len(times) - 1) |-> Div(times[k] - times[k + 1], NsPerMs)]

\* C15 as stated: after a frame of a layer was inserted into a slot of its own,
\* the list of differences is the distance of each of the layer's entries to its
\* next older entry, newest first.
C15_ConsecutiveOwnDeltas ==
    (lastFrame.called /\ lastFrame.fresh)
        => lastFrame.differencesMs = Deltas(OwnTimes(lastFrame.layer))

\* C15, amended: the list holds those of these distances that lie strictly
\* between 10 and 60 ms, newest first; the others are dropped as noise.
C15_ConsecutiveOwnDeltasWithoutNoise ==
    (lastFrame.called /\ lastFrame.fresh)
        => lastFrame.differencesMs
              = SelectSeq(Deltas(OwnTimes(lastFrame.layer)), LAMBDA d : d > 10 /\ d < 60)

\* C15's case: layer A at 0, 16, 33 and 49 ms in four slots in a row, with an
\* entry of layer B in the history too, gives 16, 17, 16.
C15_Witness ==
    /\ lastFrame.called
    /\ lastFrame.fresh
    /\ lastFrame.layer = "A"
    /\ OwnTimes("A") = <<49000000, 33000000, 16000000, 0>>
    /\ OwnTimes("B") # <<>>
    /\ lastFrame.differencesMs = <<16, 17, 16>>

\* The values traced under a per-layer name of the last frame's layer.
TracedForLayer(name) ==
    LET signals == SelectSeq(atrace, LAMBDA s : s.name = name /\ s.layer = lastFrame.layer)
    IN  [i \in 1..Len(signals) |-> signals[i].value]

\* The middle elements of the sorted list (two for an even length).
Middle(v) ==
    LET sorted == SortSeq(v, LAMBDA a, b : a < b)
    IN  {sorted[k] : k \in {(Len(v) + 1) \div 2, (Len(v) \div 2) + 1}}

\* The values that occur most often in the list.
MostFrequent(v) ==
    LET Count(x) == Cardinality({i \in 1..Len(v) : v[i] = x})
    IN  {v[i] : i \in {j \in 1..Len(v) : \A k \in 1..Len(v) : Count(v[j]) >= Count(v[k])}}

\* Median and mode of a non-empty list are traced once each under the layer's
\* names, and these are the only per-layer signals besides the mean.
MedianAndModeTraced ==
    /\ Len(TracedForLayer("TimestampMedian_")) = 1
    /\ TracedForLayer("TimestampMedian_")[1] \in Middle(lastFrame.differencesMs)
    /\ Len(TracedForLayer("TimestampMode_")) = 1
    /\ TracedForLayer("TimestampMode_")[1] \in MostFrequent(lastFrame.differencesMs)
    /\ Len(TracedForLayer("TimestampMean_")) = 1
    /\ Len(SelectSeq(atrace, LAMBDA s : s.layer = lastFrame.layer)) = 3

\* C16 as stated: for a non-empty list of differences the values traced under the
\* layer's names are its mean, its median and its mode.
C16_MeanMedianMode ==
    (lastFrame.called /\ lastFrame.differencesMs # <<>>)
        => /\ MedianAndModeTraced
           /\ TracedForLayer("TimestampMean_")[1] * Len(lastFrame.differencesMs)
                 = Sum(lastFrame.differencesMs)

\* C16, amended: the value traced as the mean is the mean cut to its integer
\* part (16 for the list 16, 17, 16), median and mode as stated (16 and 16).
C16_TruncatedMeanMedianMode ==
    (lastFrame.called /\ lastFrame.differencesMs # <<>>)
        => /\ MedianAndModeTraced
           /\ TracedForLayer("TimestampMean_")[1]
                 = Sum(lastFrame.differencesMs) \div Len(lastFrame.differencesMs)

\* C16's case: the list 16, 17, 16 with 16 traced as mean, median and mode.
C16_Witness ==
    /\ lastFrame.called
    /\ lastFrame.differencesMs = <<16, 17, 16>>
    /\ TracedForLayer("TimestampMean_") = <<16>>
    /\ TracedForLayer("TimestampMedian_") = <<16>>
    /\ TracedForLayer("TimestampMode_") = <<16>>

\* C17: a frame with an automatic timestamp leaves the ring buffer, the write
\* counter and the stored previous timestamp as they were and traces neither an
\* interval, nor a mean of the buffer, nor a bucket.
C17_AutoTimestampSkipped ==
    [][(FramePresented /\ lastFrame'.auto)
          => /\ UNCHANGED <<mTimeDifferences, mCounter, mPreviousFrameTimestamp>>
             /\ \A i \in 1..Len(atrace') :
                   atrace'[i].name \notin {"TimestampDiff", "AutoTimestampMean", "FPS"}]_vars

\* C17's case: a frame with an automatic timestamp came 16 ms after a frame whose
\* interval was written to the buffer.
C17_Witness ==
    /\ lastFrame.called
    /\ lastFrame.auto
    /\ mCounter >= 1
    /\ lastPresentTime = mPreviousFrameTimestamp + 16000000

\* The step is a call of addFramePresentTimeForLayer or incrementFrameCounter.
FrameMethodRan == frames' # frames \/ mLayerHistory' # mLayerHistory

\* C18: addFramePresentTimeForLayer and incrementFrameCounter leave the two
\* hardware vsync fields, the skip count and the connections as they were and
\* call neither DispSync nor setVsyncEnabled.
C18_NoFeedbackIntoScheduling ==
    [][FrameMethodRan
          => /\ UNCHANGED <<mPrimaryHWVsyncEnabled, mHWVsyncAvailable, mSkipCount,
                            mConnections, eventThreads, sNextId>>
             /\ UNCHANGED <<hwVsyncOn, resyncActive, trace>>
             /\ \A i \in 1..Len(atrace') : atrace'[i].kind = "atrace"]_vars

\* C18's case: a frame was presented while hardware vsync is enabled, a skip
\* count is set and a connection exists.
C18_Witness ==
    /\ lastFrame.called
    /\ ~lastFrame.auto
    /\ mPrimaryHWVsyncEnabled
    /\ mSkipCount = 1
    /\ mConnections["s1"] # <<>>

\* The step is a call of updateFrameSkipping that left a trace differing from
\* the one before it (a call that leaves the same trace forwards as little as the
\* call before it and repeats its argument).
SkipUpdated ==
    /\ atrace' # atrace
    /\ atrace' # <<>>
    /\ atrace'[1].name = "FrameSkipCount"

\* C26: updateFrameSkipping(n) calls setRefreshSkipCount(n) on DispSync, once,
\* iff n differs from mSkipCount, and leaves mSkipCount = n; nothing else changes
\* mSkipCount, so it is the argument of the last call and a call repeating it
\* forwards nothing.
C26_SkipForwardedWhenChanged ==
    [][/\ SkipUpdated
             => LET n == atrace'[1].value
                    forwarded == SelectSeq(atrace', LAMBDA s : s.kind = "call")
                IN  /\ forwarded = IF mSkipCount # n
                                      THEN <<DispSyncCall("setRefreshSkipCount", n)>>
                                      ELSE <<>>
                    /\ mSkipCount' = n
       /\ mSkipCount' # mSkipCount => SkipUpdated]_vars

\* C26's case: the skip count was changed to 1, and a second call with 1
\* forwarded nothing.
C26_Witness ==
    /\ mSkipCount = 1
    /\ atrace = <<Signal("FrameSkipCount", "", 1)>>

\* C28: the write counter counts the accepted intervals; each of the last
\* ARRAY_SIZE accepted intervals, the k-th counted from 0, is in slot
\* k mod ARRAY_SIZE, and a slot never written holds its initial zero.
C28_RingWrapsModuloN ==
    /\ mCounter = Len(accepted)
    /\ \A k \in 0..(Len(accepted) - 1) :
          k >= Len(accepted) - ARRAY_SIZE
             => mTimeDifferences[(k % ARRAY_SIZE) + 1] = accepted[k + 1]
    /\ \A i \in 1..ARRAY_SIZE : i > Len(accepted) => mTimeDifferences[i] = 0

\* C28's case: one interval more than the buffer holds was accepted and took the
\* slot of the first one, a different value.
C28_Witness ==
    /\ lastFrame.called
    /\ lastFrame.written
    /\ Len(accepted) = ARRAY_SIZE + 1
    /\ accepted[1] # accepted[ARRAY_SIZE + 1]
    /\ mTimeDifferences[1] = accepted[ARRAY_SIZE + 1]
    /\ \A i \in 2..ARRAY_SIZE : mTimeDifferences[i] = accepted[i]

\* The present times of the layer's entries in the slots before the current
\* one, newest first.
OlderOwnTimes(layerName) ==
    LET slots == [i \in 1..(LayerHistorySize - 1) |-> LayerHistory_get(mLayerHistory, i)]
        own == SelectSeq(slots, LAMBDA slot : \E e \in slot : e[1] = layerName)
    IN  [k \in 1..Len(own) |-> (CHOOSE e \in own[k] : e[1] = layerName)[2]]

\* C29: the list of differences holds exactly those distances in ms, from the
\* frame's time back through the layer's own entries in the older slots, that are
\* above 10 and below 60 (10 and 60 themselves are dropped); entries of other
\* layers add nothing; with an empty list nothing is traced for the layer, with
\* a non-empty one its three signals, and never anything for another layer.
C29_LayerNoiseFilter ==
    lastFrame.called
        => LET distances == Deltas(<<lastFrame.time>> \o OlderOwnTimes(lastFrame.layer))
               kept == SelectSeq(distances, LAMBDA d : 10 < d /\ d < 60)
               layerSignals == SelectSeq(atrace, LAMBDA s : s.layer = lastFrame.layer)
           IN  /\ lastFrame.differencesMs = kept
               /\ \A i \in 1..Len(lastFrame.differencesMs) :
                     lastFrame.differencesMs[i] \notin {10, 60}
               /\ Len(layerSignals) = IF kept = <<>> THEN 0 ELSE 3
               /\ \A i \in 1..Len(atrace) : atrace[i].layer \in {"", lastFrame.layer}

\* C29's case: a frame of layer A 60 ms after the layer's entry before it, with
\* an entry of layer B in the slot between the two: the list is empty and
\* nothing is traced for the layer.
C29_Witness ==
    /\ lastFrame.called
    /\ lastFrame.layer = "A"
    /\ lastFrame.time = 70999999
    /\ OlderOwnTimes("A") = <<10999999>>
    /\ \E e \in LayerHistory_get(mLayerHistory, 1) : e[1] = "B"
    /\ lastFrame.differencesMs = <<>>
    /\ \A i \in 1..Len(atrace) : atrace[i].layer = ""

\* C33: the global analyzer stores the frame's timestamp as the previous one on
\* every call with a non-automatic timestamp, discarded as noise or not, and on
\* no call with an automatic one, so that each difference is taken from the
\* non-automatic frame just before: it is accepted, as that difference, exactly
\* when it lies in 10..100, and a frame 120 ms after the first frame followed by
\* one 16 ms later leaves the single accepted sample 16.
C33_PreviousStoredOnEveryNonAuto ==
    [][FramePresented
          => LET diffMs == Div(lastPresentTime' - mPreviousFrameTimestamp, NsPerMs)
             IN  /\ lastFrame'.auto
                       => /\ mPreviousFrameTimestamp' = mPreviousFrameTimestamp
                          /\ accepted' = accepted
                 /\ ~lastFrame'.auto
                       => /\ mPreviousFrameTimestamp' = lastPresentTime'
                          /\ accepted' = IF diffMs >= 10 /\ diffMs <= 100
                                             THEN Append(accepted, diffMs)
                                             ELSE accepted
                 /\ (/\ frames = 1
                     /\ ~lastFrame.auto
                     /\ lastPresentTime = 120000000
                     /\ accepted = <<>>
                     /\ ~lastFrame'.auto
                     /\ lastPresentTime' = 136000000)
                       => accepted' = <<16>>]_vars

\* C33's case: a first frame at 120 ms, discarded, and a second 16 ms later:
\* the only accepted sample is 16.
C33_Witness ==
    /\ frames = 2
    /\ lastPresentTime = 136000000
    /\ lastFrame.called
    /\ ~lastFrame.auto
    /\ lastFrame.written
    /\ accepted = <<16>>
    /\ mPreviousFrameTimestamp = 136000000

\* Every frame so far had a non-automatic timestamp 33 ms after the frame
\* before, the first one 33 ms after the initial stored timestamp of 0.
Stream33 ==
    /\ frames >= 1
    /\ Len(accepted) = frames
    /\ \A i \in 1..Len(accepted) : accepted[i] = 33
    /\ lastPresentTime = frames * 33 * NsPerMs

\* C34: for frames with non-automatic timestamps exactly 33 ms apart presented
\* to a new Scheduler, no frame of the stream traces a bucket other than 30,
\* the frames presented while the ring buffer is still filling included.
C34_Stream33OnlyEmits30 ==
    (lastFrame.called /\ Stream33) => Traced("FPS") \in {<<>>, <<30>>}

\* ========================================================================
\* Properties of the lazy service registrar.

\* The services in mRegisteredServices.
RegisteredServices == Names(mRegisteredServices, Len(mRegisteredServices))

\* C35: while the process runs, mNumConnectedServices is the number of
\* registered services whose last onClients notification said they have clients,
\* and so lies between 0 and the number of registered services, whatever
\* notifications arrived: it never wraps below zero.
C35_CounterMatchesClients ==
    Running
       => /\ mNumConnectedServices
                = SizeT(Cardinality({s \in RegisteredServices : hasClients[s]}))
          /\ \E k \in 0..Cardinality(RegisteredServices) : mNumConnectedServices = SizeT(k)

\* C36: tryShutdown runs exactly when an onClients call leaves the counter at 0;
\* it unregisters the services in the order they were registered in, up to the
\* first that fails; the process exits exactly if none fails; otherwise exactly
\* the services unregistered before the failure are registered again, and the
\* process keeps running with every service of its list registered with the
\* service manager.
C36_ShutdownProtocol ==
    lastOnClients.called
       => /\ lastOnClients.ran <=> (mNumConnectedServices = SizeT(0))
          /\ exited <=> (lastOnClients.ran
                            /\ lastOnClients.unregistered = lastOnClients.before)
          /\ lastOnClients.ran
                => /\ \A i \in 1..Len(lastOnClients.unregistered) :
                         lastOnClients.unregistered[i] = lastOnClients.before[i]
                   /\ ~exited
                         => /\ lastOnClients.reRegistered = lastOnClients.unregistered
                            /\ ~iteratorFault
                            /\ RegisteredServices \subseteq managerServices

\* C37: mRegisteredServices holds every registered service once, after any
\* registerService calls and failed shutdowns: the re-registration of a failed
\* tryShutdown adds no second entry for a service and makes no push_back into
\* the list while the loop iterates over it.
C37_EachServiceOnce ==
    /\ \A i, j \in 1..Len(mRegisteredServices) :
          i # j => mRegisteredServices[i] # mRegisteredServices[j]
    /\ ~modifiedWhileIterated

\* ========================================================================
\* Properties of dumpstate's consent handling.

\* C38: with a caller's fd, the bugreport is copied to it only if the user
\* approved: whenever it was copied the consent result read last, and the
\* callback's result, are APPROVED; when CopyBugreportIfUserConsented returns
\* having read DENIED it has deleted the internal files, copied nothing and
\* returns USER_CONSENT_DENIED; having read UNAVAILABLE again after the wait it
\* has copied nothing and returns USER_CONSENT_TIMED_OUT.
C38_CopyOnlyIfApproved ==
    /\ copied => bugreport_fd /\ consent_result = "APPROVED" /\ result_ = "APPROVED"
    /\ (dpc = "copy_returned" /\ consent_result = "DENIED")
          => cleaned /\ ~copied /\ status = "USER_CONSENT_DENIED"
    /\ (dpc = "copy_returned" /\ consent_result = "UNAVAILABLE")
          => ~cleaned /\ ~copied /\ status = "USER_CONSENT_TIMED_OUT"
    /\ (dpc = "copy_returned" /\ consent_result = "APPROVED")
          => ~cleaned /\ status = (IF copied THEN "OK" ELSE "ERROR")

\* C38's case: CopyBugreportIfUserConsented has returned without an answer of
\* the user, whose approval arrives only now: nothing was copied.
C38_Witness ==
    /\ bugreport_fd
    /\ dpc = "copy_returned"
    /\ consent_result = "UNAVAILABLE"
    /\ status = "USER_CONSENT_TIMED_OUT"
    /\ result_ = "APPROVED"
    /\ ~copied

\* C39: the status RunInternal returns agrees with what was done, whenever the
\* user's answer is delivered: called with a caller's fd, if it returns OK the
\* bugreport was copied to the fd, and if the copy was skipped because no answer
\* had arrived it returns USER_CONSENT_TIMED_OUT.
C39_StatusAgreesWithCopy ==
    (dpc = "done" /\ bugreport_fd)
       => /\ runStatus = "OK" => copied
          /\ status = "USER_CONSENT_TIMED_OUT" => runStatus = "USER_CONSENT_TIMED_OUT"
====
